---- MODULE Spec2Model ----
(***************************************************************************)
(* A model of base/task/sequence_manager: one TaskQueueImpl bound to one   *)
(* TimeDomain and one SequenceManager, with tasks posted from the main     *)
(* thread and from other threads.                                          *)
(*                                                                         *)
(* Every critical section under any_thread_lock_ is one atomic step.  A    *)
(* post from another thread is the steps: the locked part (with the        *)
(* TryBeginOperation before it), then the part after the lock.  A main     *)
(* thread operation that takes the lock is the steps: the part before the  *)
(* lock, then the locked part with what follows it (which reads no state   *)
(* another thread writes, but the sequence number generator).  A post made *)
(* by the main thread is one step: no other thread reads what it writes    *)
(* outside its locked part.                                                *)
(* A DoWork is one step, and is also taken apart (drain of the reload      *)
(* flag, reload, pop of a task, reload after the pop) where the steps      *)
(* between its lock sections matter.                                       *)
(*                                                                         *)
(* The queue is built with add_queue_time_to_tasks false, on a build       *)
(* without OS_WIN (every wake-up has low resolution), with or without      *)
(* delayed_fence_allowed.  It is built with a sequence manager, or without *)
(* one: the queue without a manager never starts accepting posts, and only *)
(* the posts to it are modelled.                                           *)
(***************************************************************************)
EXTENDS Integers, Sequences, FiniteSets

\* ------------------------------------------------------------------ bounds
\* Posts accepted over a run.
MaxTasks == 2
\* The time domain's clock stops advancing here.
MaxTime == 2
\* InsertFence and SetQueueEnabled(true) are not called once the sequence
\* number generator has reached this.
MaxSeq == 5

\* Pushes onto the DelayedIncomingQueue that is modelled with its storage.
MaxPushes == 3

\* The last reading of the timer's clock.
MaxTicks == 4

\* Delayed tasks posted to the queues of the time domain that is modelled
\* with several queues.
MaxDomainPosts == 2

\* The delays a caller passes to PostDelayedTask for a delayed task.
Delays == {1, 2}
\* The threads that post, besides the queue's own (main) thread.
Threads == {"t1", "t2"}

\* --------------------------------------------------------------- constants
\* EnqueueOrder::none(): no enqueue order, no fence.
none == 0
\* EnqueueOrder::blocking_fence(): the fence of kBeginningOfTime.
blocking_fence == 1
\* EnqueueOrder::kFirst: the first number the sequence manager hands out.
kFirst == 2
\* EnqueueOrder::max(): above every number the sequence manager hands out.
EnqueueOrder_max == 2 * MaxSeq + 2
\* TaskQueue::QueuePriority, most important first: kNormalPriority and
\* kLowPriority.  One less than kNormalPriority is kHighPriority; one more
\* than kLowPriority is kBestEffortPriority.
kNormalPriority == 4
kLowPriority == 5
\* The priorities a caller passes to SetQueuePriority.
QueuePriorities == (kNormalPriority - 1)..(kLowPriority + 1)
\* The time domains of the sequence manager; they read the same clock.  The
\* queue is constructed in the first.
TimeDomains == {"d1", "d2"}
\* The null TimeDomain pointer.
nullptr == "nullptr"
\* TimeTicks::Max(), the run time that cancels the delayed DoWork.
TimeTicksMax == MaxTime + 100
\* absl::nullopt for optional<DelayedWakeUp>.
NoWakeUp == [time |-> 0, seq |-> 0]
\* SequenceManager settings: add_queue_time_to_tasks.
add_queue_time_to_tasks == FALSE

VARIABLES
  now,                    \* the time domain's clock (TimeDomain::Now)
  next_sequence_number,   \* the sequence manager's enqueue order generator
  work_pending,           \* ScheduleWork was called and no DoWork began since
  reload_flag,            \* empty_queues_to_reload_handle_ is active
  delayed_wake_up_queue,  \* each TimeDomain's heap of wake-ups
  operations_controller,  \* task_poster_'s gate: "setup" (not started),
                          \* "accepting" or "shutdown"
  any_thread,             \* TaskQueueImpl::any_thread_ (under any_thread_lock_)
  main_thread_only,       \* TaskQueueImpl::main_thread_only_
  th,                     \* each posting thread's position and locals
  mpc,                    \* the main thread's position inside a queue operation
  nposted,                \* history: posts placed in the queue so far
  executed,               \* history: the user tasks run, in order
  dropped,                \* history: posts destroyed by UnregisterTaskQueue
  discarded,              \* history: cancelled posts removed without being run
  non_nestable_task_queue, \* the sequence manager's deferred non-nestable
                          \* tasks: those taken from a work queue inside a
                          \* nested run loop, waiting to be requeued
  unsafe_calls,           \* history: the calls of ScheduleWork made with
                          \* any_thread_lock_ held, and the calls of an
                          \* observer or handler made with it held or off
                          \* the main thread
  fence_deadline,         \* history: the time InsertFenceAt was called with,
                          \* 0 once a fence is inserted or removed by a call
  fence_mark,             \* history: nposted when InsertFence(kNow) installed
                          \* the current fence, -1 with no such fence
  heap_queue,             \* a DelayedIncomingQueue as the program stores it,
                          \* and the one it is swapped with
  heap_pushed,            \* history: pushes onto heap_queue so far
  heap_op,                \* history: the last operation on heap_queue
  timer,                  \* a timer: its kind and the members of TimerBase
  tick_clock,             \* the timer's clock (TimerBase::Now)
  task_runner,            \* the timer's task runner: the scheduled task
  domain,                 \* a TimeDomain with several queues: its heap of
                          \* wake-ups, its count of high resolution
                          \* wake-ups, its clock, and of each queue the
                          \* delayed incoming queue and what decides its
                          \* wake-up
  domain_call,            \* history: the last operation on domain and the
                          \* calls it made to the sequence manager
  priorities,             \* the queue's priority and the enqueue orders at
                          \* which it became unblocked, kept while
                          \* SetQueuePriority is among the operations
  armed,                  \* history: the last call of Start or Reset
  last_run                \* history: the last invocation of the user task

\* The variables of the storage of a DelayedIncomingQueue.
heap_vars == <<heap_queue, heap_pushed, heap_op>>

\* The variables of a timer and its task runner.
timer_vars == <<timer, tick_clock, task_runner, armed, last_run>>

\* The variables of the time domain with several queues.
domain_vars == <<domain, domain_call>>

\* The variables of the queue's priority.
priority_vars == <<priorities>>

\* The variables of the parts that are modelled on their own, apart from the
\* task queue.
standalone == <<heap_vars, timer_vars, domain_vars, priority_vars>>

\* The variables of the task queue, its time domains and its sequence manager.
queue_vars == <<now, next_sequence_number, work_pending, reload_flag,
                delayed_wake_up_queue, operations_controller,
                any_thread, main_thread_only, th, mpc, nposted, executed,
                dropped, discarded, fence_mark, fence_deadline,
                unsafe_calls, non_nestable_task_queue>>

vars == <<queue_vars, standalone>>

\* ------------------------------------------------------------------- tasks
\* A Task.  id is the history number of the post (the order in which posts
\* were placed); seq is sequence_num; eo is the enqueue order (none while
\* unset); drt is delayed_run_time (0: null); qt is queue_time (0: null); due
\* is the history value t0 + d of the post.  A helper task of a cross-thread
\* delayed post (callback ScheduleDelayedWorkTask) carries the pending delayed
\* task's sequence number and run time in pseq, pdrt; pseq = 0 otherwise.
NewTask(id, seq, eo, drt, qt, due, pseq, pdrt) ==
  [id |-> id, seq |-> seq, eo |-> eo, drt |-> drt, qt |-> qt, due |-> due,
   pseq |-> pseq, pdrt |-> pdrt, cancelled |-> FALSE]

IsHelper(task) == task.pseq # 0

\* ------------------------------------------------------------- work queues
\* WorkQueue: tasks_ and fence_.
EmptyWorkQueue == [tasks |-> <<>>, fence |-> none]

\* WorkQueue::BlockedByFence.
WQ_BlockedByFence(wq) ==
  /\ wq.fence # none
  /\ (wq.tasks = <<>> \/ Head(wq.tasks).eo >= wq.fence)

\* WorkQueue::InsertFence: the queue with the fence, and whether the front
\* task became unblocked.
WQ_InsertFence(wq, fence) ==
  LET was_blocked_by_fence == WQ_BlockedByFence(wq)
      nwq == [wq EXCEPT !.fence = fence]
  IN [wq |-> nwq,
      unblocked |-> wq.tasks # <<>> /\ was_blocked_by_fence
                    /\ ~WQ_BlockedByFence(nwq)]

\* WorkQueue::InsertFenceSilently.
WQ_InsertFenceSilently(wq, fence) == [wq EXCEPT !.fence = fence]

\* WorkQueue::RemoveFence.
WQ_RemoveFence(wq) ==
  LET was_blocked_by_fence == WQ_BlockedByFence(wq)
  IN [wq |-> [wq EXCEPT !.fence = none],
      unblocked |-> wq.tasks # <<>> /\ was_blocked_by_fence]

\* --------------------------------------------------------------- the world
\* The state the queue's operations read and write, as one value, so that an
\* operation is a function from world to world and operations compose as the
\* calls of the program do.  obs collects the times with which the operation
\* called TaskQueue::Observer::OnQueueNextWakeUpChanged (0: TimeTicks()).
World ==
  [m |-> main_thread_only, a |-> any_thread, seq |-> next_sequence_number,
   wp |-> work_pending, rf |-> reload_flag,
   heap |-> delayed_wake_up_queue, obs |-> {},
   thread |-> "main", lock |-> FALSE, calls |-> {}, p |-> priorities]

\* The world of an operation that runs on thread t.
WorldOf(t) == [World EXCEPT !.thread = t]

\* any_thread_lock_ is acquired and released by the thread of the operation.
Lock(w) == [w EXCEPT !.lock = TRUE]
Unlock(w) == [w EXCEPT !.lock = FALSE]

\* An observer or a handler is called; the call is kept if it is made with
\* any_thread_lock_ held or off the main thread.
Callback(w, call) ==
  IF w.lock \/ w.thread # "main"
    THEN [w EXCEPT !.calls = @ \cup {[call |-> call, thread |-> w.thread,
                                       lock |-> w.lock]}]
    ELSE w

Commit(w) ==
  /\ unsafe_calls' = unsafe_calls \cup w.calls
  /\ main_thread_only' = w.m
  /\ any_thread' = w.a
  /\ next_sequence_number' = w.seq
  /\ work_pending' = w.wp
  /\ reload_flag' = w.rf
  /\ delayed_wake_up_queue' = w.heap

\* SequenceManagerImpl::ScheduleWork; the call is kept if it is made with
\* any_thread_lock_ held.
ScheduleWork(w) ==
  [w EXCEPT !.wp = TRUE,
            !.calls = IF w.lock
                        THEN @ \cup {[call |-> "ScheduleWork",
                                      thread |-> w.thread, lock |-> TRUE]}
                        ELSE @]

\* TaskQueueImpl::IsQueueEnabled.
IsQueueEnabled(w) == w.m.is_enabled

\* A CouldTaskRun that forgets the fence.
CouldTaskRun_NoFence(w, enqueue_order) == IsQueueEnabled(w)

\* TaskQueueImpl::CouldTaskRun.
CouldTaskRun(w, enqueue_order) ==
  IF ~IsQueueEnabled(w) THEN FALSE
  ELSE IF w.m.current_fence = none THEN TRUE
  ELSE enqueue_order < w.m.current_fence

\* An UpdateCrossThreadQueueStateLocked whose flag forgets is_enabled.
UpdateCrossThreadQueueStateLocked_IgnoresEnabled(w) ==
  [w EXCEPT
     !.a.immediate_work_queue_empty = (w.m.immediate_work_queue.tasks = <<>>),
     !.a.post_immediate_task_should_schedule_work =
        (w.m.task_queue_observer \/ w.m.current_fence = none)]

\* TaskQueueImpl::UpdateCrossThreadQueueStateLocked.
UpdateCrossThreadQueueStateLocked(w) ==
  [w EXCEPT
     !.a.immediate_work_queue_empty = (w.m.immediate_work_queue.tasks = <<>>),
     !.a.post_immediate_task_should_schedule_work =
        IF w.m.task_queue_observer
          THEN IsQueueEnabled(w)
          ELSE IsQueueEnabled(w) /\ w.m.current_fence = none]

\* TaskQueueImpl::HasPendingImmediateWork and HasPendingImmediateWorkLocked.
HasPendingImmediateWork(w) ==
  \/ w.m.delayed_work_queue.tasks # <<>>
  \/ w.m.immediate_work_queue.tasks # <<>>
  \/ w.a.immediate_incoming_queue # <<>>

\* A BlockedByFence that looks at the work queues only.
BlockedByFence_WorkQueuesOnly(w) ==
  IF w.m.current_fence = none THEN FALSE
  ELSE /\ WQ_BlockedByFence(w.m.immediate_work_queue)
       /\ WQ_BlockedByFence(w.m.delayed_work_queue)

\* TaskQueueImpl::BlockedByFence.
BlockedByFence(w) ==
  IF w.m.current_fence = none THEN FALSE
  ELSE IF \/ ~WQ_BlockedByFence(w.m.immediate_work_queue)
          \/ ~WQ_BlockedByFence(w.m.delayed_work_queue) THEN FALSE
  ELSE IF w.a.immediate_incoming_queue = <<>> THEN TRUE
  ELSE Head(w.a.immediate_incoming_queue).eo > w.m.current_fence

\* TaskQueueImpl::GetQueuePriority: the index of the set the selector keeps
\* the queue's work queues in.
GetQueuePriority(w) == w.p.priority

\* An OnQueueUnblocked that does not look at the priority.
OnQueueUnblocked_AnyPriority(w) ==
  [w EXCEPT
     !.seq = @ + 1,
     !.p.enqueue_order_at_which_we_became_unblocked = w.seq,
     !.p.enqueue_order_at_which_we_became_unblocked_with_normal_priority =
        w.seq]

\* TaskQueueImpl::OnQueueUnblocked.
OnQueueUnblocked(w) ==
  [w EXCEPT
     !.seq = @ + 1,
     !.p.enqueue_order_at_which_we_became_unblocked = w.seq,
     !.p.enqueue_order_at_which_we_became_unblocked_with_normal_priority =
        IF GetQueuePriority(w) <= kNormalPriority THEN w.seq ELSE @]

\* TaskQueueImpl::WasBlockedOrLowPriority.
WasBlockedOrLowPriority(w, enqueue_order) ==
  enqueue_order <
    w.p.enqueue_order_at_which_we_became_unblocked_with_normal_priority

\* ------------------------------------------------------------- time domain
\* The top of DelayedIncomingQueue: least (delayed_run_time, sequence_num).
DelayedTop(queue) ==
  CHOOSE t \in queue :
    \A u \in queue : t.drt < u.drt \/ (t.drt = u.drt /\ t.seq <= u.seq)

\* The least wake-up time of the heap (delayed_wake_up_queue_.Min()), 0 when
\* the heap is empty.
HeapMinTime(heap) ==
  IF heap = {} THEN 0
  ELSE (CHOOSE e \in heap : \A f \in heap : e.time <= f.time).time

\* TimeDomain::SetNextWakeUpForQueue, called on the queue's time domain.  The
\* queue's entry, if any, is replaced by wake_up or erased.  When the minimum
\* changed, RequestDoWork (that is, ScheduleWork) is called if the new minimum
\* is not after lazy_now, and SetNextDelayedDoWork otherwise: that call
\* reprograms the thread controller's timer, which is not part of this model.
SetNextWakeUpForQueue(w, wake_up, lazy_now) ==
  LET time_domain == w.m.time_domain
      previous_wake_up == HeapMinTime(w.heap[time_domain])
      heap == IF wake_up # NoWakeUp THEN {wake_up} ELSE {}
      new_wake_up == HeapMinTime(heap)
      w1 == [w EXCEPT !.heap[time_domain] = heap]
  IN IF new_wake_up = previous_wake_up THEN w1
     ELSE LET t == IF new_wake_up = 0 THEN TimeTicksMax ELSE new_wake_up
          IN IF t <= lazy_now THEN ScheduleWork(w1) ELSE w1

\* TimeDomain::NextScheduledRunTime of one time domain; 0 is absl::nullopt.
NextScheduledRunTime(w, time_domain) == HeapMinTime(w.heap[time_domain])

\* A GetNextScheduledWakeUpImpl that does not look at is_enabled.
GetNextScheduledWakeUpImpl_IgnoresEnabled(w) ==
  IF w.m.delayed_incoming_queue = {} THEN NoWakeUp
  ELSE LET top_task == DelayedTop(w.m.delayed_incoming_queue)
       IN [time |-> top_task.drt, seq |-> top_task.seq]

\* TaskQueueImpl::GetNextScheduledWakeUpImpl.
GetNextScheduledWakeUpImpl(w) ==
  IF w.m.delayed_incoming_queue = {} \/ ~IsQueueEnabled(w) THEN NoWakeUp
  ELSE LET top_task == DelayedTop(w.m.delayed_incoming_queue)
       IN [time |-> top_task.drt, seq |-> top_task.seq]

\* An UpdateDelayedWakeUpImpl that never calls the observer.
UpdateDelayedWakeUpImpl_Silent(w, lazy_now, wake_up) ==
  IF w.m.scheduled_wake_up = wake_up THEN w
  ELSE SetNextWakeUpForQueue([w EXCEPT !.m.scheduled_wake_up = wake_up],
                             wake_up, lazy_now)

\* TaskQueueImpl::UpdateDelayedWakeUpImpl.
UpdateDelayedWakeUpImpl(w, lazy_now, wake_up) ==
  IF w.m.scheduled_wake_up = wake_up THEN w
  ELSE LET w1 == [w EXCEPT !.m.scheduled_wake_up = wake_up]
           w2 == IF /\ wake_up # NoWakeUp
                    /\ w1.m.task_queue_observer
                    /\ ~HasPendingImmediateWork(w1)
                   THEN Callback([w1 EXCEPT !.obs = @ \cup {wake_up.time}],
                                 "OnQueueNextWakeUpChanged")
                   ELSE w1
       IN SetNextWakeUpForQueue(w2, wake_up, lazy_now)

\* TaskQueueImpl::UpdateDelayedWakeUp.
UpdateDelayedWakeUp(w, lazy_now) ==
  UpdateDelayedWakeUpImpl(w, lazy_now, GetNextScheduledWakeUpImpl(w))

\* ------------------------------------------------------------------ fences
\* An InsertFence that installs the blocking fence whatever the position.
InsertFence_Pre_AlwaysBlocking(w, position) ==
  LET w1 == IF position = "kNow" THEN [w EXCEPT !.seq = @ + 1] ELSE w
      ri == WQ_InsertFence(w.m.immediate_work_queue, blocking_fence)
      rd == WQ_InsertFence(w.m.delayed_work_queue, blocking_fence)
  IN [w |-> [w1 EXCEPT !.m.delayed_fence = 0,
                       !.m.current_fence = blocking_fence,
                       !.m.immediate_work_queue = ri.wq,
                       !.m.delayed_work_queue = rd.wq],
      previous_fence |-> w.m.current_fence,
      front_task_unblocked |-> (ri.unblocked \/ rd.unblocked)]

\* An InsertFence that reads the next sequence number without taking it.
InsertFence_Pre_SharedNumber(w, position) ==
  LET current_fence == IF position = "kNow" THEN w.seq ELSE blocking_fence
      ri == WQ_InsertFence(w.m.immediate_work_queue, current_fence)
      rd == WQ_InsertFence(w.m.delayed_work_queue, current_fence)
  IN [w |-> [w EXCEPT !.m.delayed_fence = 0,
                      !.m.current_fence = current_fence,
                      !.m.immediate_work_queue = ri.wq,
                      !.m.delayed_work_queue = rd.wq],
      previous_fence |-> w.m.current_fence,
      front_task_unblocked |-> (ri.unblocked \/ rd.unblocked)]

\* An InsertFence that leaves the delayed fence in place.
InsertFence_Pre_KeepsDelayedFence(w, position) ==
  LET current_fence == IF position = "kNow" THEN w.seq ELSE blocking_fence
      w1 == IF position = "kNow" THEN [w EXCEPT !.seq = @ + 1] ELSE w
      ri == WQ_InsertFence(w.m.immediate_work_queue, current_fence)
      rd == WQ_InsertFence(w.m.delayed_work_queue, current_fence)
  IN [w |-> [w1 EXCEPT !.m.current_fence = current_fence,
                       !.m.immediate_work_queue = ri.wq,
                       !.m.delayed_work_queue = rd.wq],
      previous_fence |-> w.m.current_fence,
      front_task_unblocked |-> (ri.unblocked \/ rd.unblocked)]

\* TaskQueueImpl::InsertFence, the part before the lock.  position is "kNow"
\* or "kBeginningOfTime".
InsertFence_Pre(w, position) ==
  LET previous_fence == w.m.current_fence
      current_fence == IF position = "kNow" THEN w.seq ELSE blocking_fence
      w1 == IF position = "kNow" THEN [w EXCEPT !.seq = @ + 1] ELSE w
      ri == WQ_InsertFence(w.m.immediate_work_queue, current_fence)
      rd == WQ_InsertFence(w.m.delayed_work_queue, current_fence)
  IN [w |-> [w1 EXCEPT !.m.delayed_fence = 0,
                       !.m.current_fence = current_fence,
                       !.m.immediate_work_queue = ri.wq,
                       !.m.delayed_work_queue = rd.wq],
      previous_fence |-> previous_fence,
      front_task_unblocked |-> (ri.unblocked \/ rd.unblocked)]

\* TaskQueueImpl::InsertFence, the part under any_thread_lock_.
InsertFence_Locked(w, previous_fence, front_task_unblocked) ==
  LET current_fence == w.m.current_fence
      incoming == w.a.immediate_incoming_queue
      unblocked ==
        \/ front_task_unblocked
        \/ /\ previous_fence # none
           /\ previous_fence < current_fence
           /\ incoming # <<>>
           /\ Head(incoming).eo > previous_fence
           /\ Head(incoming).eo < current_fence
  IN [w |-> Unlock(UpdateCrossThreadQueueStateLocked(Lock(w))),
      front_task_unblocked |-> unblocked]

\* An InsertFence and RemoveFence that leave the wake-up to the posters.
Fence_Tail_Silent(w, front_task_unblocked) ==
  IF IsQueueEnabled(w) /\ front_task_unblocked
    THEN OnQueueUnblocked(w)
    ELSE w

\* TaskQueueImpl::InsertFence and RemoveFence, the part after the lock.
Fence_Tail(w, front_task_unblocked) ==
  IF IsQueueEnabled(w) /\ front_task_unblocked
    THEN ScheduleWork(OnQueueUnblocked(w))
    ELSE w

\* TaskQueueImpl::InsertFence as one call (from ActivateDelayedFenceIfNeeded).
InsertFence(w, position) ==
  LET p == InsertFence_Pre(w, position)
      l == InsertFence_Locked(p.w, p.previous_fence, p.front_task_unblocked)
  IN Fence_Tail(l.w, l.front_task_unblocked)

\* TaskQueueImpl::RemoveFence, the part before the lock.
RemoveFence_Pre(w) ==
  LET ri == WQ_RemoveFence(w.m.immediate_work_queue)
      rd == WQ_RemoveFence(w.m.delayed_work_queue)
  IN [w |-> [w EXCEPT !.m.current_fence = none,
                      !.m.delayed_fence = 0,
                      !.m.immediate_work_queue = ri.wq,
                      !.m.delayed_work_queue = rd.wq],
      previous_fence |-> w.m.current_fence,
      front_task_unblocked |-> (ri.unblocked \/ rd.unblocked)]

\* A RemoveFence that does not look at the immediate incoming queue.
RemoveFence_Locked_WorkQueuesOnly(w, previous_fence, front_task_unblocked) ==
  [w |-> UpdateCrossThreadQueueStateLocked(w),
   front_task_unblocked |-> front_task_unblocked]

\* TaskQueueImpl::RemoveFence, the part under any_thread_lock_.
RemoveFence_Locked(w, previous_fence, front_task_unblocked) ==
  LET incoming == w.a.immediate_incoming_queue
      unblocked ==
        \/ front_task_unblocked
        \/ /\ previous_fence # none
           /\ incoming # <<>>
           /\ Head(incoming).eo > previous_fence
  IN [w |-> Unlock(UpdateCrossThreadQueueStateLocked(Lock(w))),
      front_task_unblocked |-> unblocked]

\* An ActivateDelayedFenceIfNeeded that waits until the time is past the
\* delayed fence.
ActivateDelayedFenceIfNeeded_Late(w, time) ==
  IF w.m.delayed_fence = 0 THEN w
  ELSE IF w.m.delayed_fence >= time THEN w
  ELSE [InsertFence(w, "kNow") EXCEPT !.m.delayed_fence = 0]

\* TaskQueueImpl::ActivateDelayedFenceIfNeeded.
ActivateDelayedFenceIfNeeded(w, time) ==
  IF w.m.delayed_fence = 0 THEN w
  ELSE IF w.m.delayed_fence > time THEN w
  ELSE [InsertFence(w, "kNow") EXCEPT !.m.delayed_fence = 0]

\* ---------------------------------------------------------------- reloading
\* The index of the first task of queue whose queue_time reached the delayed
\* fence, 0 when there is none.
FirstAtOrAfter(queue, time) ==
  LET hit == {i \in 1..Len(queue) : queue[i].qt >= time}
  IN IF hit = {} THEN 0 ELSE CHOOSE i \in hit : \A j \in hit : i <= j

\* A reload that copies the incoming tasks and leaves them where they were.
TakeImmediateIncomingQueueTasks_Copy(w) ==
  UpdateCrossThreadQueueStateLocked(
    [w EXCEPT !.m.immediate_work_queue.tasks = w.a.immediate_incoming_queue])

\* A reload that hands the incoming tasks over newest first.
RECURSIVE Reversed(_)
Reversed(queue) ==
  IF queue = <<>> THEN <<>> ELSE Append(Reversed(Tail(queue)), Head(queue))

TakeImmediateIncomingQueueTasks_NewestFirst(w) ==
  UpdateCrossThreadQueueStateLocked(
    [w EXCEPT !.a.immediate_incoming_queue = <<>>,
              !.m.immediate_work_queue.tasks =
                 Reversed(w.a.immediate_incoming_queue)])

\* TaskQueueImpl::TakeImmediateIncomingQueueTasks, called with the immediate
\* work queue's (empty) deque.
TakeImmediateIncomingQueueTasks(w) ==
  LET queue == w.a.immediate_incoming_queue
      w1 == [Lock(w) EXCEPT !.a.immediate_incoming_queue = <<>>,
                            !.m.immediate_work_queue.tasks = queue]
      i == IF w.m.delayed_fence = 0 THEN 0
           ELSE FirstAtOrAfter(queue, w.m.delayed_fence)
      w2 == IF i = 0 THEN w1
            ELSE [w1 EXCEPT
                    !.m.delayed_fence = 0,
                    !.m.current_fence = queue[i].eo,
                    !.m.immediate_work_queue =
                       WQ_InsertFenceSilently(@, queue[i].eo),
                    !.m.delayed_work_queue =
                       WQ_InsertFenceSilently(@, queue[i].eo)]
  IN Unlock(UpdateCrossThreadQueueStateLocked(w2))

\* A reload that tells the observer before any_thread_lock_ is released.
ReloadEmptyImmediateWorkQueue_NotifiesLocked(w) ==
  LET w1 == TakeImmediateIncomingQueueTasks(w)
  IN IF w1.m.task_queue_observer /\ IsQueueEnabled(w1)
       THEN Unlock(Callback(Lock([w1 EXCEPT !.obs = @ \cup {0}]),
                            "OnQueueNextWakeUpChanged"))
       ELSE w1

\* TaskQueueImpl::ReloadEmptyImmediateWorkQueue.
ReloadEmptyImmediateWorkQueue(w) ==
  LET w1 == TakeImmediateIncomingQueueTasks(w)
  IN IF w1.m.task_queue_observer /\ IsQueueEnabled(w1)
       THEN Callback([w1 EXCEPT !.obs = @ \cup {0}],
                     "OnQueueNextWakeUpChanged")
       ELSE w1

\* ------------------------------------------------------------ delayed tasks
\* A loop that moves the delayed tasks without looking at the clock.
RECURSIVE MoveReadyLoop_Eager(_, _)
MoveReadyLoop_Eager(w, lazy_now) ==
  IF w.m.delayed_incoming_queue = {} THEN w
  ELSE LET task == DelayedTop(w.m.delayed_incoming_queue)
       IN MoveReadyLoop_Eager(
            [w EXCEPT !.seq = @ + 1,
                      !.m.delayed_work_queue.tasks =
                         Append(@, [task EXCEPT !.eo = w.seq]),
                      !.m.delayed_incoming_queue = @ \ {task}], lazy_now)

\* TaskQueueImpl::MoveReadyDelayedTasksToWorkQueue, its loop.
RECURSIVE MoveReadyLoop(_, _)
MoveReadyLoop(w, lazy_now) ==
  IF w.m.delayed_incoming_queue = {} THEN w
  ELSE LET task == DelayedTop(w.m.delayed_incoming_queue)
       IN IF task.cancelled
            THEN MoveReadyLoop(
                   [w EXCEPT !.m.delayed_incoming_queue = @ \ {task}], lazy_now)
          ELSE IF task.drt > lazy_now THEN w
          ELSE LET w1 == ActivateDelayedFenceIfNeeded(w, task.drt)
                   w2 == [w1 EXCEPT
                            !.seq = @ + 1,
                            !.m.delayed_work_queue.tasks =
                               Append(@, [task EXCEPT !.eo = w1.seq]),
                            !.m.delayed_incoming_queue = @ \ {task}]
               IN MoveReadyLoop(w2, lazy_now)

\* TaskQueueImpl::MoveReadyDelayedTasksToWorkQueue.
MoveReadyDelayedTasksToWorkQueue(w, lazy_now) ==
  UpdateDelayedWakeUp(MoveReadyLoop(w, lazy_now), lazy_now)

\* TimeDomain::MoveReadyDelayedTasksToWorkQueues of one time domain.
RECURSIVE MoveReadyDelayedTasksToWorkQueues(_, _, _)
MoveReadyDelayedTasksToWorkQueues(w, time_domain, lazy_now) ==
  IF w.heap[time_domain] # {} /\ HeapMinTime(w.heap[time_domain]) <= lazy_now
    THEN MoveReadyDelayedTasksToWorkQueues(
           MoveReadyDelayedTasksToWorkQueue(w, lazy_now), time_domain, lazy_now)
    ELSE w

\* TaskQueueImpl::PushOntoDelayedIncomingQueueFromMainThread.
PushOntoDelayedIncomingQueueFromMainThread(w, pending_task, time) ==
  UpdateDelayedWakeUp(
    [w EXCEPT !.m.delayed_incoming_queue = @ \cup {pending_task}], time)

\* TaskQueueImpl::ScheduleDelayedWorkTask, the callback of a helper task.
ScheduleDelayedWorkTask(w, pending_task, time_domain_now) ==
  IF pending_task.drt <= time_domain_now
    THEN MoveReadyDelayedTasksToWorkQueue(
           [w EXCEPT !.m.delayed_incoming_queue =
                        @ \cup {[pending_task EXCEPT !.drt = time_domain_now]}],
           time_domain_now)
    ELSE PushOntoDelayedIncomingQueueFromMainThread(w, pending_task,
                                                    time_domain_now)

\* DelayedIncomingQueue::SweepCancelledTasks.
SweepCancelledTasks(queue) == {t \in queue : ~t.cancelled}

\* TaskQueueImpl::ReclaimMemory.
ReclaimMemory(w, time) ==
  IF w.m.delayed_incoming_queue = {} THEN w
  ELSE UpdateDelayedWakeUp(
         [w EXCEPT !.m.delayed_incoming_queue = SweepCancelledTasks(@)], time)

\* A HasTaskToRunImmediately that reports nothing for a queue BlockedByFence.
HasTaskToRunImmediately_Fenced(w, time) ==
  /\ ~BlockedByFence(w)
  /\ \/ w.m.delayed_work_queue.tasks # <<>>
     \/ w.m.immediate_work_queue.tasks # <<>>
     \/ /\ w.m.delayed_incoming_queue # {}
        /\ DelayedTop(w.m.delayed_incoming_queue).drt <= time
     \/ w.a.immediate_incoming_queue # <<>>

\* TaskQueueImpl::HasTaskToRunImmediately.
HasTaskToRunImmediately(w, time) ==
  IF \/ w.m.delayed_work_queue.tasks # <<>>
     \/ w.m.immediate_work_queue.tasks # <<>> THEN TRUE
  ELSE IF /\ w.m.delayed_incoming_queue # {}
          /\ DelayedTop(w.m.delayed_incoming_queue).drt <= time THEN TRUE
  ELSE w.a.immediate_incoming_queue # <<>>

\* ------------------------------------------------------- enabling, disabling
\* TaskQueueImpl::SetQueueEnabled, the part before the lock (reached when
\* is_enabled differs from enabled).
SetQueueEnabled_Pre(w, enabled, time) ==
  UpdateDelayedWakeUp([w EXCEPT !.m.is_enabled = enabled], time)

\* TaskQueueImpl::SetQueueEnabled, the part under any_thread_lock_.
SetQueueEnabled_Locked(w) ==
  LET w1 == Unlock(UpdateCrossThreadQueueStateLocked(Lock(w)))
  IN [w |-> w1, has_pending_immediate_work |-> HasPendingImmediateWork(w1)]

\* SequenceManagerImpl::OnTaskQueueEnabled, which TaskQueueSelector::EnableQueue
\* calls: a DoWork is posted if the queue has something to run.
OnTaskQueueEnabled(w, time) ==
  IF HasTaskToRunImmediately(w, time) /\ ~BlockedByFence(w)
    THEN ScheduleWork(w) ELSE w

\* TaskQueueImpl::SetQueueEnabled, the part after the lock.
SetQueueEnabled_Tail(w, enabled, has_pending_immediate_work, time) ==
  IF enabled
    THEN LET w1 == IF has_pending_immediate_work /\ w.m.task_queue_observer
                     THEN Callback([w EXCEPT !.obs = @ \cup {0}],
                                   "OnQueueNextWakeUpChanged")
                     ELSE w
             w2 == OnTaskQueueEnabled(w1, time)
         IN IF ~BlockedByFence(w2) THEN OnQueueUnblocked(w2) ELSE w2
    ELSE w

\* ------------------------------------------------------------ the priority
\* The priority and the enqueue orders of a queue that was just constructed:
\* the selector adds a queue at kNormalPriority, and an EnqueueOrder is
\* constructed as none.  dcheck_eq tells of the DCHECK_EQ of
\* SetQueuePriority whether it was never reached ("none"), held whenever it
\* was reached ("held"), or has failed ("failed").
NewPriorities ==
  [priority |-> kNormalPriority,
   enqueue_order_at_which_we_became_unblocked |-> none,
   enqueue_order_at_which_we_became_unblocked_with_normal_priority |-> none,
   dcheck_eq |-> "none"]

\* TaskQueueImpl::SetQueuePriority.  The selector moves the queue's work
\* queues to the set of the priority; os_win tells whether the build is one
\* for Windows, which updates the delayed wake-up.
SetQueuePriority(w, priority, os_win, time) ==
  LET previous_priority == GetQueuePriority(w)
  IN IF priority = previous_priority THEN w
     ELSE LET w1 == [w EXCEPT !.p.priority = priority]
              w2 == IF os_win THEN UpdateDelayedWakeUp(w1, time) ELSE w1
          IN IF priority > kNormalPriority
               THEN [w2 EXCEPT
                       !.p.enqueue_order_at_which_we_became_unblocked_with_normal_priority =
                          EnqueueOrder_max]
             ELSE IF previous_priority > kNormalPriority
               THEN [w2 EXCEPT
                       !.seq = @ + 1,
                       !.p.dcheck_eq =
                          IF /\ @ # "failed"
                             /\ w2.p.enqueue_order_at_which_we_became_unblocked_with_normal_priority
                                  = EnqueueOrder_max
                            THEN "held" ELSE "failed",
                       !.p.enqueue_order_at_which_we_became_unblocked_with_normal_priority =
                          w2.seq]
             ELSE w2

\* A SetTimeDomain that leaves the queue's wake-up in the time domain it
\* leaves.
SetTimeDomain_KeepsWakeUp(w, time_domain, time) ==
  UpdateDelayedWakeUp(
    [w EXCEPT !.a.time_domain = time_domain,
              !.m.time_domain = time_domain,
              !.m.scheduled_wake_up = NoWakeUp], time)

\* TaskQueueImpl::SetTimeDomain, called with a time domain other than the
\* queue's.
SetTimeDomain(w, time_domain, time) ==
  LET w1 == [w EXCEPT !.a.time_domain = time_domain]
      w2 == SetNextWakeUpForQueue(w1, NoWakeUp, time)
      w3 == [w2 EXCEPT !.m.time_domain = time_domain,
                       !.m.scheduled_wake_up = NoWakeUp]
  IN UpdateDelayedWakeUp(w3, time)

\* TaskQueueImpl::SetObserver.
SetObserver(w, observer) ==
  Unlock([Lock(w) EXCEPT !.m.task_queue_observer = observer])

\* TaskQueueImpl::SetOnTaskPostedHandler.
SetOnTaskPostedHandler(w, handler) ==
  Unlock([Lock(w) EXCEPT !.a.on_task_posted_handler = handler])

\* ------------------------------------------------------------------ running
WorkQueueOf(w, name) ==
  IF name = "immediate" THEN w.m.immediate_work_queue
  ELSE w.m.delayed_work_queue

\* The work queues the selector may take a task from: those of an enabled
\* queue that hold a task and are not blocked by their fence.
ReadyWorkQueues(w) ==
  {name \in {"immediate", "delayed"} :
     /\ IsQueueEnabled(w)
     /\ WorkQueueOf(w, name).tasks # <<>>
     /\ ~WQ_BlockedByFence(WorkQueueOf(w, name))}

\* WorkQueueSets: the ready work queue whose front task has the least enqueue
\* order.
SelectWorkQueue(w) ==
  CHOOSE name \in ReadyWorkQueues(w) :
    \A other \in ReadyWorkQueues(w) :
      Head(WorkQueueOf(w, name).tasks).eo <= Head(WorkQueueOf(w, other).tasks).eo

\* WorkQueue::TakeTaskFromWorkQueue: the front task leaves; an immediate work
\* queue that becomes empty is reloaded at once.
TakeTaskFromWorkQueue(w, name) ==
  IF name = "delayed"
    THEN [w EXCEPT !.m.delayed_work_queue.tasks = Tail(@)]
    ELSE LET w1 == [w EXCEPT !.m.immediate_work_queue.tasks = Tail(@)]
         IN IF w1.m.immediate_work_queue.tasks = <<>>
              THEN TakeImmediateIncomingQueueTasks(w1) ELSE w1

\* The delayed task a helper task carries.
PendingTaskOf(helper) ==
  NewTask(helper.id, helper.pseq, none, helper.pdrt, 0, helper.due, 0, 0)

\* ------------------------------------ DelayedIncomingQueue and its storage
\* DelayedIncomingQueue as it is stored: queue_.c, the vector under the
\* std::priority_queue, and pending_high_res_tasks_.  A task here is its
\* delayed_run_time drt, its sequence_num seq, is_high_res, and whether its
\* callback is cancelled.  (The task queue above keeps its delayed incoming
\* queue as the set of these tasks.)
EmptyDelayedIncomingQueue == [c |-> <<>>, pending_high_res_tasks |-> 0]

\* The delayed run times of the tasks pushed.
RunTimes == {1, 2}

\* The order in which delayed tasks leave the queue: by delayed_run_time, then
\* by sequence_num.
RunsBefore(t, u) == t.drt < u.drt \/ (t.drt = u.drt /\ t.seq < u.seq)

\* c is a heap for the queue's comparator: no task runs before its parent.
IsHeap(c) == \A i \in 2..Len(c) : ~RunsBefore(c[i], c[i \div 2])

RangeOf(c) == {c[i] : i \in 1..Len(c)}

\* What std::make_heap and std::pop_heap may leave: the library chooses the
\* arrangement, which is a heap of the tasks.
HeapsOf(tasks) ==
  {c \in [1..Cardinality(tasks) -> tasks] : RangeOf(c) = tasks /\ IsHeap(c)}

\* std::push_heap: the last task rises while it runs before its parent.
RECURSIVE SiftUp(_, _)
SiftUp(c, i) ==
  IF i = 1 THEN c
  ELSE LET parent == i \div 2
       IN IF RunsBefore(c[i], c[parent])
            THEN SiftUp([c EXCEPT ![i] = c[parent], ![parent] = c[i]], parent)
            ELSE c

\* DelayedIncomingQueue::push.
DelayedIncomingQueue_push(q, task) ==
  [c |-> SiftUp(Append(q.c, task), Len(q.c) + 1),
   pending_high_res_tasks |->
     q.pending_high_res_tasks + (IF task.is_high_res THEN 1 ELSE 0)]

\* DelayedIncomingQueue::pop on a queue that is not empty: what it may leave.
DelayedIncomingQueue_pop(q) ==
  {[c |-> c2,
    pending_high_res_tasks |->
      q.pending_high_res_tasks - (IF Head(q.c).is_high_res THEN 1 ELSE 0)] :
     c2 \in HeapsOf(RangeOf(Tail(q.c)))}

\* A sweep that erases the cancelled tasks and does not rebuild the heap.
PQueue_SweepCancelledTasks_NoHeapify(c) ==
  {[c |-> SelectSeq(c, LAMBDA t : ~t.cancelled),
    num_high_res_tasks_swept |->
      Cardinality({i \in 1..Len(c) : c[i].cancelled /\ c[i].is_high_res})]}

\* DelayedIncomingQueue::PQueue::SweepCancelledTasks: what it may leave in c,
\* and the number it returns.  std::stable_partition keeps the order of the
\* tasks that stay; the heap is rebuilt only if a task was deleted.
PQueue_SweepCancelledTasks(c) ==
  LET keep == SelectSeq(c, LAMBDA t : ~t.cancelled)
      num_high_res_tasks_swept ==
        Cardinality({i \in 1..Len(c) : c[i].cancelled /\ c[i].is_high_res})
  IN IF Len(keep) = Len(c)
       THEN {[c |-> keep, num_high_res_tasks_swept |-> num_high_res_tasks_swept]}
       ELSE {[c |-> c2, num_high_res_tasks_swept |-> num_high_res_tasks_swept] :
               c2 \in HeapsOf(RangeOf(keep))}

\* A sweep that leaves pending_high_res_tasks_ as it was.
DelayedIncomingQueue_SweepCancelledTasks_KeepsCount(q) ==
  {[c |-> r.c, pending_high_res_tasks |-> q.pending_high_res_tasks] :
     r \in PQueue_SweepCancelledTasks(q.c)}

\* DelayedIncomingQueue::SweepCancelledTasks: what it may leave.
DelayedIncomingQueue_SweepCancelledTasks(q) ==
  {[c |-> r.c,
    pending_high_res_tasks |->
      q.pending_high_res_tasks - r.num_high_res_tasks_swept] :
     r \in PQueue_SweepCancelledTasks(q.c)}

\* ------------------------------------------------------------------ timers
\* The three timers.
Kinds == {"OneShotTimer", "RepeatingTimer", "RetainingOneShotTimer"}

\* The user tasks a caller passes to Start.
Closures == {"f", "g"}

\* A null callback: user_task_ after Reset(), or moved from.
NullCallback == "null"

\* The delays a caller passes to Start.
TimerDelays == {0, 1, 2}

\* TimerBase::TimerBase() of a timer of the given kind.  A time of 0 is the
\* null TimeTicks(); task_destruction_detector tells whether the pointer is
\* set; destructed tells whether ~TimerBase has run.
TimerBase(kind) ==
  [kind |-> kind, is_running |-> FALSE, delay |-> 0, desired_run_time |-> 0,
   scheduled_run_time |-> 0, task_destruction_detector |-> FALSE,
   user_task |-> NullCallback, destructed |-> FALSE]

\* The task runner with no task of the timer in it.  due is the time from
\* which the scheduled task may run (0: there is no such task).  abandoned
\* holds the tasks the timer has abandoned, which stay in the task runner:
\* of each the time from which it may run, whether its weak pointer is
\* valid, and whether its detector is enabled.
NoTask == [due |-> 0, abandoned |-> {}]

\* The state the timer's operations read and write, as one value.  posted
\* counts the tasks the operation posted; invoked collects the invocations of
\* the user task the operation made, each with the state of the timer at the
\* invocation; accepts tells whether the task runner accepts the tasks the
\* operation posts; detector tells whether the detector of the task that is
\* being run, destroyed or rejected is enabled.
TimerWorld ==
  [timer |-> timer, task_runner |-> task_runner, posted |-> 0,
   invoked |-> <<>>, accepts |-> TRUE, detector |-> FALSE]

\* An AbandonScheduledTask that leaves the weak pointers valid.
AbandonScheduledTask_KeepsWeakPtrs(tw) ==
  IF tw.timer.task_destruction_detector
    THEN [tw EXCEPT
            !.timer.task_destruction_detector = FALSE,
            !.detector = IF tw.task_runner.due = 0 THEN FALSE ELSE @,
            !.task_runner =
               [due |-> 0,
                abandoned |->
                  @.abandoned \cup
                    (IF @.due = 0 THEN {}
                     ELSE {[due |-> @.due, valid |-> TRUE,
                            detector |-> FALSE]})]]
    ELSE tw

\* TimerBase::AbandonScheduledTask.  The detector the timer points to, which
\* is that of the scheduled task or of the task being destroyed, is disabled;
\* the weak pointers of every task posted so far are invalidated.  The
\* scheduled task stays in the task runner, abandoned.  A task whose weak
\* pointer is invalid is destroyed, its callback not run, whether the task
\* runner runs it or destroys it, so its time is kept no longer (0).
AbandonScheduledTask(tw) ==
  IF tw.timer.task_destruction_detector
    THEN [tw EXCEPT
            !.timer.task_destruction_detector = FALSE,
            !.detector = IF tw.task_runner.due = 0 THEN FALSE ELSE @,
            !.task_runner =
               [due |-> 0,
                abandoned |->
                  {[t EXCEPT !.valid = FALSE, !.due = 0] : t \in @.abandoned}
                    \cup (IF @.due = 0 THEN {}
                          ELSE {[due |-> 0, valid |-> FALSE,
                                 detector |-> FALSE]})]]
    ELSE tw

\* An OnStop of RetainingOneShotTimer that resets the user task.
RetainingOneShotTimer_OnStop_Releases(tw) == [tw EXCEPT !.timer.user_task = NullCallback]

\* OneShotTimer::OnStop.
OneShotTimer_OnStop(tw) == [tw EXCEPT !.timer.user_task = NullCallback]

\* RepeatingTimer::OnStop.
RepeatingTimer_OnStop(tw) == tw

\* RetainingOneShotTimer::OnStop.
RetainingOneShotTimer_OnStop(tw) == tw

\* TimerBase::Stop.
Stop(tw) ==
  LET tw1 == [tw EXCEPT !.timer.is_running = FALSE]
  IN CASE tw.timer.kind = "OneShotTimer" -> OneShotTimer_OnStop(tw1)
       [] tw.timer.kind = "RepeatingTimer" -> RepeatingTimer_OnStop(tw1)
       [] OTHER -> RetainingOneShotTimer_OnStop(tw1)

\* TimerBase::AbandonAndStop, which the TaskDestructionDetector of a task
\* that is destroyed without having run calls.
AbandonAndStop(tw) == Stop(AbandonScheduledTask(tw))

\* TaskDestructionDetector::~TaskDestructionDetector, of the detector of the
\* task that is being run, destroyed or rejected.
TaskDestructionDetector_Destructor(tw) ==
  IF tw.detector THEN AbandonAndStop(tw) ELSE tw

\* The task runner after it has accepted a task of the timer that may run
\* from the given time.  The task is the scheduled task from now on.  A task
\* that was the scheduled one stays in the task runner as it is, its weak
\* pointer valid and its detector enabled: posting removes nothing.
Posted(runner, due) ==
  [due |-> due,
   abandoned |->
     runner.abandoned \cup
       (IF runner.due = 0 THEN {}
        ELSE {[due |-> runner.due, valid |-> TRUE, detector |-> TRUE]})]

\* SequencedTaskRunner::PostDelayedTask of OnScheduledTaskInvoked: the task
\* is run when at least delay has passed.  A task runner that does not accept
\* the task destroys it, and with it its detector, in the call.
PostDelayedTask(tw, delay, time) ==
  IF tw.accepts
    THEN [tw EXCEPT !.task_runner = Posted(@, time + delay),
                    !.posted = @ + 1]
    ELSE TaskDestructionDetector_Destructor(
           [tw EXCEPT !.detector = TRUE, !.posted = @ + 1])

\* SequencedTaskRunner::PostTask of OnScheduledTaskInvoked.
PostTask(tw, time) ==
  IF tw.accepts
    THEN [tw EXCEPT !.task_runner = Posted(@, time), !.posted = @ + 1]
    ELSE TaskDestructionDetector_Destructor(
           [tw EXCEPT !.detector = TRUE, !.posted = @ + 1])

\* TimerBase::ScheduleNewTask.
ScheduleNewTask(tw, delay, time) ==
  LET tw1 == [tw EXCEPT !.timer.is_running = TRUE,
                        !.timer.task_destruction_detector = TRUE]
  IN IF delay > 0
       THEN [PostDelayedTask(tw1, delay, time) EXCEPT
               !.timer.scheduled_run_time = time + delay,
               !.timer.desired_run_time = time + delay]
       ELSE [PostTask(tw1, time) EXCEPT
               !.timer.scheduled_run_time = 0,
               !.timer.desired_run_time = 0]

\* TimerBase::~TimerBase.
TimerBase_Destructor(tw) ==
  [AbandonScheduledTask(tw) EXCEPT !.timer.destructed = TRUE]

\* A Reset that does not abandon the scheduled task before it schedules an
\* earlier one.
Reset_KeepsScheduledTask(tw, time) ==
  IF ~tw.timer.task_destruction_detector
    THEN ScheduleNewTask(tw, tw.timer.delay, time)
    ELSE LET desired_run_time ==
               IF tw.timer.delay > 0 THEN time + tw.timer.delay ELSE 0
             tw1 == [tw EXCEPT !.timer.desired_run_time = desired_run_time]
         IN IF desired_run_time >= tw.timer.scheduled_run_time
              THEN [tw1 EXCEPT !.timer.is_running = TRUE]
              ELSE ScheduleNewTask(tw1, tw.timer.delay, time)

\* TimerBase::Reset.
Reset(tw, time) ==
  IF ~tw.timer.task_destruction_detector
    THEN ScheduleNewTask(tw, tw.timer.delay, time)
    ELSE LET desired_run_time ==
               IF tw.timer.delay > 0 THEN time + tw.timer.delay ELSE 0
             tw1 == [tw EXCEPT !.timer.desired_run_time = desired_run_time]
         IN IF desired_run_time >= tw.timer.scheduled_run_time
              THEN [tw1 EXCEPT !.timer.is_running = TRUE]
              ELSE ScheduleNewTask(AbandonScheduledTask(tw1), tw.timer.delay,
                                   time)

\* TimerBase::StartInternal.
StartInternal(tw, delay, time) ==
  Reset([tw EXCEPT !.timer.delay = delay], time)

\* OneShotTimer::Start, RepeatingTimer::Start, RetainingOneShotTimer::Start.
Start(tw, delay, user_task, time) ==
  StartInternal([tw EXCEPT !.timer.user_task = user_task], delay, time)

\* task.Run(): the user task is invoked.  What is recorded is the task, the
\* time, IsRunning() and the time of the task scheduled at that moment (-1:
\* none is scheduled).
Run(tw, task, time) ==
  [tw EXCEPT !.invoked =
     Append(@, [task |-> task, time |-> time,
                is_running |-> tw.timer.is_running,
                scheduled |-> IF tw.timer.task_destruction_detector
                                THEN tw.task_runner.due ELSE -1])]

\* A OneShotTimer::RunUserTask that does not stop the timer.
OneShotTimer_RunUserTask_NoStop(tw, time) ==
  Run([tw EXCEPT !.timer.user_task = NullCallback], tw.timer.user_task, time)

\* A OneShotTimer::RunUserTask that calls Stop before it moves the user task
\* to its local.
OneShotTimer_RunUserTask_StopFirst(tw, time) ==
  LET tw1 == Stop(tw)
  IN Run([tw1 EXCEPT !.timer.user_task = NullCallback], tw1.timer.user_task,
         time)

\* OneShotTimer::RunUserTask.
OneShotTimer_RunUserTask(tw, time) ==
  LET task == tw.timer.user_task
  IN Run(Stop([tw EXCEPT !.timer.user_task = NullCallback]), task, time)

\* A RepeatingTimer::RunUserTask that schedules no new task.
RepeatingTimer_RunUserTask_NoNewTask(tw, time) ==
  Run(tw, tw.timer.user_task, time)

\* RepeatingTimer::RunUserTask.
RepeatingTimer_RunUserTask(tw, time) ==
  LET task == tw.timer.user_task
  IN Run(ScheduleNewTask(tw, tw.timer.delay, time), task, time)

\* RetainingOneShotTimer::RunUserTask.
RetainingOneShotTimer_RunUserTask(tw, time) ==
  LET task == tw.timer.user_task
  IN Run(Stop(tw), task, time)

\* TimerBase::RunUserTask, which each timer overrides.
RunUserTask(tw, time) ==
  CASE tw.timer.kind = "OneShotTimer" -> OneShotTimer_RunUserTask(tw, time)
    [] tw.timer.kind = "RepeatingTimer" -> RepeatingTimer_RunUserTask(tw, time)
    [] OTHER -> RetainingOneShotTimer_RunUserTask(tw, time)

\* An OnScheduledTaskInvoked that does not look at desired_run_time_.
OnScheduledTaskInvoked_IgnoresDesired(tw, time) ==
  LET tw1 == TaskDestructionDetector_Destructor(
               [tw EXCEPT !.detector = FALSE,
                          !.timer.task_destruction_detector = FALSE])
  IN IF ~tw1.timer.is_running THEN tw1 ELSE RunUserTask(tw1, time)

\* An OnScheduledTaskInvoked that does not disable the detector it is passed.
OnScheduledTaskInvoked_NoDisable(tw, time) ==
  LET tw1 == TaskDestructionDetector_Destructor(
               [tw EXCEPT !.timer.task_destruction_detector = FALSE])
  IN IF ~tw1.timer.is_running THEN tw1
     ELSE IF /\ tw1.timer.desired_run_time > tw1.timer.scheduled_run_time
             /\ tw1.timer.desired_run_time > time
            THEN ScheduleNewTask(tw1, tw1.timer.desired_run_time - time, time)
            ELSE RunUserTask(tw1, time)

\* An OnScheduledTaskInvoked that does not look at is_running_.
OnScheduledTaskInvoked_IgnoresStop(tw, time) ==
  LET tw1 == TaskDestructionDetector_Destructor(
               [tw EXCEPT !.detector = FALSE,
                          !.timer.task_destruction_detector = FALSE])
  IN IF /\ tw1.timer.desired_run_time > tw1.timer.scheduled_run_time
        /\ tw1.timer.desired_run_time > time
       THEN ScheduleNewTask(tw1, tw1.timer.desired_run_time - time, time)
       ELSE RunUserTask(tw1, time)

\* TimerBase::OnScheduledTaskInvoked: the task runner runs a task the timer
\* posted, which has left the task runner.  The detector passed is disabled,
\* the timer's pointer to the detector is nulled, the detector is destroyed.
OnScheduledTaskInvoked(tw, time) ==
  LET tw1 == TaskDestructionDetector_Destructor(
               [tw EXCEPT !.detector = FALSE,
                          !.timer.task_destruction_detector = FALSE])
  IN IF ~tw1.timer.is_running THEN tw1
     ELSE IF /\ tw1.timer.desired_run_time > tw1.timer.scheduled_run_time
             /\ tw1.timer.desired_run_time > time
            THEN ScheduleNewTask(tw1, tw1.timer.desired_run_time - time, time)
            ELSE RunUserTask(tw1, time)

\* The world in which the scheduled task has left the task runner, to be run
\* or destroyed, its detector enabled.
ScheduledTaskTaken(tw) ==
  [tw EXCEPT !.task_runner.due = 0, !.detector = TRUE]

\* The world in which an abandoned task has left the task runner.
AbandonedTaskTaken(tw, task) ==
  [tw EXCEPT !.task_runner.abandoned = @ \ {task},
             !.detector = task.detector]

\* The task runner runs a task whose callback is bound to a weak pointer of
\* the timer: OnScheduledTaskInvoked if the pointer is valid; otherwise the
\* callback is not run, and the task is destroyed.
RunTask(tw, valid, time) ==
  IF valid THEN OnScheduledTaskInvoked(tw, time)
  ELSE TaskDestructionDetector_Destructor(tw)

\* OneShotTimer::FireNow.
FireNow(tw, time) == RunUserTask(tw, time)

\* The history of a timer on which neither Start nor Reset was called: the
\* call, its time, the delay it left, the user task last passed to Start, the
\* tasks posted and the invocations of the user task by the call and since,
\* each counted up to two, and whether an abandoned task was run or destroyed
\* since.
NeverArmed ==
  [by |-> "none", time |-> 0, delay |-> 0, task |-> NullCallback,
   posts |-> 0, runs |-> 0, abandoned_ended |-> FALSE]

\* The history of a timer whose user task was not invoked.  Of the last
\* invocation it keeps the time, whether FireNow made it, and the time of the
\* invocation before it (0: there was none).
NoRun == [time |-> 0, fire_now |-> FALSE, previous |-> 0]

\* ------------------------------------------- a time domain, several queues
\* The queues registered with the time domain.
Queues == {"q1", "q2"}

\* absl::nullopt for optional<DelayedWakeUp>, with the wake-up's resolution.
nullopt == [time |-> 0, sequence_num |-> 0, resolution |-> "kLow"]

\* The delays of the tasks posted to these queues.
DomainDelays == {1}

\* A queue as the time domain sees it: its delayed incoming queue (of each
\* task delayed_run_time, sequence_num, is_high_res and whether its callback
\* is cancelled), is_enabled, whether its priority is less important than
\* kNormalPriority, its scheduled wake-up and its time domain.
NewDomainQueue ==
  [delayed_incoming_queue |-> {}, is_enabled |-> TRUE, low_priority |-> FALSE,
   scheduled_wake_up |-> nullopt, time_domain |-> "this"]

\* The time domain after construction, with its queues registered.
NewDomain ==
  [delayed_wake_up_queue |-> [queue \in Queues |-> nullopt],
   pending_high_res_wake_up_count |-> 0,
   queues |-> [queue \in Queues |-> NewDomainQueue],
   now |-> 1, posted |-> 0]

\* What the last operation on the time domain did: whether it was
\* MoveReadyDelayedTasksToWorkQueues, its calls to the sequence manager, the
\* passes of its loop and the queues it woke.
NoDomainCall ==
  [moved |-> FALSE, calls |-> <<>>, iterations |-> 0, woken |-> {},
   exhausted |-> FALSE]

\* The state an operation on the time domain works on, and what it records:
\* the calls to the sequence manager, the iterations of the loop of
\* MoveReadyDelayedTasksToWorkQueues and the queues it woke.
DomainWorld ==
  [heap |-> domain.delayed_wake_up_queue,
   count |-> domain.pending_high_res_wake_up_count,
   queues |-> domain.queues,
   calls |-> <<>>, iterations |-> 0, woken |-> {}, exhausted |-> FALSE]

\* DelayedWakeUp::operator<=: by time, then by sequence_num.
WakeUpBefore(a, b) ==
  a.time < b.time \/ (a.time = b.time /\ a.sequence_num <= b.sequence_num)

\* The queues that have an entry in the heap (a valid heap_handle).
InHeap(heap) == {queue \in Queues : heap[queue] # nullopt}

\* delayed_wake_up_queue_.Min().queue of a heap that is not empty.
MinQueue(heap) ==
  CHOOSE queue \in InHeap(heap) :
    \A other \in InHeap(heap) : WakeUpBefore(heap[queue], heap[other])

\* delayed_wake_up_queue_.Min().wake_up.time as an optional: 0 is nullopt.
MinWakeUpTime(heap) ==
  IF InHeap(heap) = {} THEN 0 ELSE heap[MinQueue(heap)].time

\* A SetNextWakeUpForQueue that does not count the wake-up it removes.
TimeDomain_SetNextWakeUpForQueue_NoDecrement(d, queue, wake_up, lazy_now) ==
  LET previous_wake_up == MinWakeUpTime(d.heap)
      heap == [d.heap EXCEPT ![queue] = wake_up]
      new_wake_up == MinWakeUpTime(heap)
      d1 == [d EXCEPT
               !.heap = heap,
               !.count = @ + (IF wake_up # nullopt
                                 /\ wake_up.resolution = "kHigh"
                                THEN 1 ELSE 0)]
  IN IF new_wake_up = previous_wake_up THEN d1
     ELSE LET run_time == IF new_wake_up = 0 THEN TimeTicksMax
                          ELSE new_wake_up
          IN IF run_time <= lazy_now
               THEN [d1 EXCEPT !.calls =
                       Append(@, [call |-> "RequestDoWork", run_time |-> 0])]
               ELSE [d1 EXCEPT !.calls =
                       Append(@, [call |-> "SetNextDelayedDoWork",
                                  run_time |-> run_time])]

\* A SetNextWakeUpForQueue that tells the sequence manager whenever the
\* queue's own wake-up changed.
TimeDomain_SetNextWakeUpForQueue_AlwaysNotifies(d, queue, wake_up, lazy_now) ==
  LET previous_queue_resolution ==
        IF d.heap[queue] # nullopt THEN d.heap[queue].resolution ELSE "none"
      heap == [d.heap EXCEPT ![queue] = wake_up]
      new_wake_up == MinWakeUpTime(heap)
      d1 == [d EXCEPT
               !.heap = heap,
               !.count = @ - (IF previous_queue_resolution = "kHigh"
                                THEN 1 ELSE 0)
                           + (IF wake_up # nullopt
                                 /\ wake_up.resolution = "kHigh"
                                THEN 1 ELSE 0)]
      run_time == IF new_wake_up = 0 THEN TimeTicksMax ELSE new_wake_up
  IN IF d.heap[queue] = wake_up THEN d1
     ELSE IF run_time <= lazy_now
       THEN [d1 EXCEPT !.calls =
               Append(@, [call |-> "RequestDoWork", run_time |-> 0])]
       ELSE [d1 EXCEPT !.calls =
               Append(@, [call |-> "SetNextDelayedDoWork",
                          run_time |-> run_time])]

\* TimeDomain::SetNextWakeUpForQueue with the heap of every queue: ChangeKey,
\* insert or erase, the count of high resolution wake-ups, and the call to
\* the sequence manager when the minimum changed.
TimeDomain_SetNextWakeUpForQueue(d, queue, wake_up, lazy_now) ==
  LET previous_wake_up == MinWakeUpTime(d.heap)
      previous_queue_resolution ==
        IF d.heap[queue] # nullopt THEN d.heap[queue].resolution ELSE "none"
      heap == [d.heap EXCEPT ![queue] = wake_up]
      new_wake_up == MinWakeUpTime(heap)
      d1 == [d EXCEPT
               !.heap = heap,
               !.count = @ - (IF previous_queue_resolution = "kHigh"
                                THEN 1 ELSE 0)
                           + (IF wake_up # nullopt
                                 /\ wake_up.resolution = "kHigh"
                                THEN 1 ELSE 0)]
  IN IF new_wake_up = previous_wake_up THEN d1
     ELSE LET run_time == IF new_wake_up = 0 THEN TimeTicksMax
                          ELSE new_wake_up
          IN IF run_time <= lazy_now
               THEN [d1 EXCEPT !.calls =
                       Append(@, [call |-> "RequestDoWork", run_time |-> 0])]
               ELSE [d1 EXCEPT !.calls =
                       Append(@, [call |-> "SetNextDelayedDoWork",
                                  run_time |-> run_time])]

\* TimeDomain::UnregisterQueue.
TimeDomain_UnregisterQueue(d, queue, lazy_now) ==
  TimeDomain_SetNextWakeUpForQueue(d, queue, nullopt, lazy_now)

\* TaskQueueImpl::GetNextScheduledWakeUpImpl with the wake-up's resolution:
\* high if the queue holds a high resolution task and its priority is
\* kNormalPriority or more important.
TaskQueueImpl_GetNextScheduledWakeUpImpl(q) ==
  IF q.delayed_incoming_queue = {} \/ ~q.is_enabled THEN nullopt
  ELSE LET top_task == DelayedTop(q.delayed_incoming_queue)
           has_pending_high_resolution_tasks ==
             \E task \in q.delayed_incoming_queue : task.is_high_res
       IN [time |-> top_task.drt, sequence_num |-> top_task.seq,
           resolution |->
             IF has_pending_high_resolution_tasks /\ ~q.low_priority
               THEN "kHigh" ELSE "kLow"]

\* TaskQueueImpl::UpdateDelayedWakeUpImpl (of a queue without an observer).
TaskQueueImpl_UpdateDelayedWakeUpImpl(d, queue, lazy_now, wake_up) ==
  IF d.queues[queue].scheduled_wake_up = wake_up THEN d
  ELSE TimeDomain_SetNextWakeUpForQueue(
         [d EXCEPT !.queues[queue].scheduled_wake_up = wake_up],
         queue, wake_up, lazy_now)

\* TaskQueueImpl::UpdateDelayedWakeUp.
TaskQueueImpl_UpdateDelayedWakeUp(d, queue, lazy_now) ==
  TaskQueueImpl_UpdateDelayedWakeUpImpl(
    d, queue, lazy_now,
    TaskQueueImpl_GetNextScheduledWakeUpImpl(d.queues[queue]))

\* A loop of MoveReadyDelayedTasksToWorkQueue that leaves the tasks whose
\* delayed_run_time is the time of the call.
RECURSIVE PopReadyDelayedTasks_Early(_, _)
PopReadyDelayedTasks_Early(queue, lazy_now) ==
  IF queue = {} THEN {}
  ELSE LET task == DelayedTop(queue)
       IN IF task.cancelled
            THEN PopReadyDelayedTasks_Early(queue \ {task}, lazy_now)
          ELSE IF task.drt >= lazy_now THEN queue
          ELSE PopReadyDelayedTasks_Early(queue \ {task}, lazy_now)

\* The loop of TaskQueueImpl::MoveReadyDelayedTasksToWorkQueue: what it leaves
\* in the delayed incoming queue.
RECURSIVE PopReadyDelayedTasks(_, _)
PopReadyDelayedTasks(queue, lazy_now) ==
  IF queue = {} THEN {}
  ELSE LET task == DelayedTop(queue)
       IN IF task.cancelled
            THEN PopReadyDelayedTasks(queue \ {task}, lazy_now)
          ELSE IF task.drt > lazy_now THEN queue
          ELSE PopReadyDelayedTasks(queue \ {task}, lazy_now)

\* TaskQueueImpl::MoveReadyDelayedTasksToWorkQueue.
TaskQueueImpl_MoveReadyDelayedTasksToWorkQueue(d, queue, lazy_now) ==
  TaskQueueImpl_UpdateDelayedWakeUp(
    [d EXCEPT !.queues[queue].delayed_incoming_queue =
                 PopReadyDelayedTasks(@, lazy_now)],
    queue, lazy_now)

\* The loop of TimeDomain::MoveReadyDelayedTasksToWorkQueues is followed for
\* this many iterations.
MaxIterations == 2 * Cardinality(Queues)

\* TimeDomain::MoveReadyDelayedTasksToWorkQueues: while the least wake-up is
\* not after lazy_now, its queue moves its ready tasks.  iterations counts
\* the passes of the loop; exhausted tells that the loop was still going after
\* MaxIterations passes.
RECURSIVE TimeDomain_MoveReadyDelayedTasksToWorkQueues(_, _)
TimeDomain_MoveReadyDelayedTasksToWorkQueues(d, lazy_now) ==
  IF InHeap(d.heap) # {} /\ MinWakeUpTime(d.heap) <= lazy_now
    THEN IF d.iterations = MaxIterations THEN [d EXCEPT !.exhausted = TRUE]
         ELSE LET queue == MinQueue(d.heap)
              IN TimeDomain_MoveReadyDelayedTasksToWorkQueues(
                   TaskQueueImpl_MoveReadyDelayedTasksToWorkQueue(
                     [d EXCEPT !.iterations = @ + 1,
                               !.woken = @ \cup {queue}],
                     queue, lazy_now),
                   lazy_now)
    ELSE d

\* An operation on the time domain and its queues has ended.
CommitDomain(moved, d) ==
  /\ domain' = [domain EXCEPT
                  !.delayed_wake_up_queue = d.heap,
                  !.pending_high_res_wake_up_count = d.count,
                  !.queues = d.queues]
  /\ domain_call' = [moved |-> moved, calls |-> d.calls,
                     iterations |-> d.iterations, woken |-> d.woken,
                     exhausted |-> d.exhausted]
  /\ UNCHANGED <<queue_vars, priority_vars, heap_vars, timer_vars>>

\* The queues that were not unregistered.
Registered == {queue \in Queues : domain.queues[queue].time_domain # nullptr}

\* PostDelayedTaskImpl on the main thread:
\* PushOntoDelayedIncomingQueueFromMainThread.
Domain_PostDelayedTask(queue, delay, is_high_res) ==
  /\ domain.posted < MaxDomainPosts
  /\ queue \in Registered
  /\ LET task == [drt |-> domain.now + delay, seq |-> domain.posted + 1,
                  is_high_res |-> is_high_res, cancelled |-> FALSE]
         d == TaskQueueImpl_UpdateDelayedWakeUp(
                [DomainWorld EXCEPT
                   !.queues[queue].delayed_incoming_queue = @ \cup {task}],
                queue, domain.now)
     IN /\ domain' = [domain EXCEPT
                        !.delayed_wake_up_queue = d.heap,
                        !.pending_high_res_wake_up_count = d.count,
                        !.queues = d.queues,
                        !.posted = @ + 1]
        /\ domain_call' = [NoDomainCall EXCEPT !.calls = d.calls]
        /\ UNCHANGED <<queue_vars, priority_vars, heap_vars, timer_vars>>

\* The callback of a delayed task is cancelled.
Domain_CancelTask(queue) ==
  /\ queue \in Registered
  /\ \E task \in domain.queues[queue].delayed_incoming_queue :
       /\ ~task.cancelled
       /\ CommitDomain(FALSE,
                       [DomainWorld EXCEPT
                          !.queues[queue].delayed_incoming_queue =
                             (@ \ {task})
                               \cup {[task EXCEPT !.cancelled = TRUE]}])

\* TaskQueueImpl::ReclaimMemory: the cancelled tasks are swept.
Domain_ReclaimMemory(queue) ==
  /\ queue \in Registered
  /\ domain.queues[queue].delayed_incoming_queue # {}
  /\ CommitDomain(FALSE,
                  TaskQueueImpl_UpdateDelayedWakeUp(
                    [DomainWorld EXCEPT
                       !.queues[queue].delayed_incoming_queue =
                          SweepCancelledTasks(@)],
                    queue, domain.now))

\* TaskQueueImpl::SetQueueEnabled with the other value: the wake-up is
\* updated.
Domain_SetQueueEnabled(queue) ==
  /\ queue \in Registered
  /\ CommitDomain(FALSE,
                  TaskQueueImpl_UpdateDelayedWakeUp(
                    [DomainWorld EXCEPT !.queues[queue].is_enabled = ~@],
                    queue, domain.now))

\* TaskQueueImpl::SetQueuePriority, between kNormalPriority and kLowPriority:
\* where tasks can be of high resolution the wake-up is updated.
Domain_SetQueuePriority(queue) ==
  /\ queue \in Registered
  /\ CommitDomain(FALSE,
                  TaskQueueImpl_UpdateDelayedWakeUp(
                    [DomainWorld EXCEPT !.queues[queue].low_priority = ~@],
                    queue, domain.now))

\* TaskQueueImpl::UnregisterTaskQueue, as the time domain sees it.
Domain_UnregisterTaskQueue(queue) ==
  /\ queue \in Registered
  /\ LET d == TimeDomain_UnregisterQueue(DomainWorld, queue, domain.now)
     IN CommitDomain(FALSE,
                     [d EXCEPT !.queues[queue].time_domain = nullptr,
                               !.queues[queue].delayed_incoming_queue = {}])

\* A DoWork calls TimeDomain::MoveReadyDelayedTasksToWorkQueues.
Domain_MoveReadyDelayedTasksToWorkQueues ==
  CommitDomain(TRUE,
               TimeDomain_MoveReadyDelayedTasksToWorkQueues(DomainWorld,
                                                            domain.now))

\* The clock of the time domain advances.
Domain_Tick ==
  /\ domain.now < MaxTime
  /\ domain' = [domain EXCEPT !.now = @ + 1]
  /\ domain_call' = NoDomainCall
  /\ UNCHANGED <<queue_vars, priority_vars, heap_vars, timer_vars>>

DomainOperations ==
  \/ \E queue \in Queues, delay \in DomainDelays, is_high_res \in BOOLEAN :
       Domain_PostDelayedTask(queue, delay, is_high_res)
  \/ \E queue \in Queues : Domain_CancelTask(queue)
  \/ \E queue \in Queues : Domain_ReclaimMemory(queue)
  \/ \E queue \in Queues : Domain_SetQueueEnabled(queue)
  \/ \E queue \in Queues : Domain_SetQueuePriority(queue)
  \/ \E queue \in Queues : Domain_UnregisterTaskQueue(queue)
  \/ Domain_MoveReadyDelayedTasksToWorkQueues
  \/ Domain_Tick

\* ------------------------------------------------------------ initial state
\* The main thread outside every queue operation.
Idle ==
  [op |-> "idle", previous_fence |-> none, front_task_unblocked |-> FALSE,
   any_blocked |-> FALSE, front_blocked |-> FALSE, time |-> 0,
   locals |-> {}]

\* A thread that is not inside a post; pc is "returned_false" after a post
\* that was refused and "idle" otherwise.
NotPosting(pc) ==
  [pc |-> pc, should_schedule_work |-> FALSE, pseq |-> 0, pdrt |-> 0]

\* TaskQueueImpl::TaskQueueImpl and the constructors of its members.  With a
\* sequence manager the constructor calls StartAcceptingOperations; without
\* one the gate stays as OperationsController's constructor left it.
Init ==
  /\ now = 1
  /\ next_sequence_number = kFirst
  /\ work_pending = FALSE
  /\ reload_flag = FALSE
  /\ delayed_wake_up_queue = [time_domain \in TimeDomains |-> {}]
  /\ operations_controller \in {"accepting", "setup"}
  /\ any_thread =
       [immediate_incoming_queue |-> <<>>, unregistered |-> FALSE,
        time_domain |-> "d1", immediate_work_queue_empty |-> TRUE,
        post_immediate_task_should_schedule_work |-> TRUE,
        on_task_posted_handler |-> FALSE]
  /\ \E delayed_fence_allowed \in BOOLEAN :
       main_thread_only =
         [immediate_work_queue |-> EmptyWorkQueue,
          delayed_work_queue |-> EmptyWorkQueue,
          delayed_incoming_queue |-> {}, current_fence |-> none,
          delayed_fence |-> 0, is_enabled |-> TRUE,
          task_queue_observer |-> FALSE, scheduled_wake_up |-> NoWakeUp,
          time_domain |-> "d1",
          delayed_fence_allowed |-> delayed_fence_allowed]
  /\ th = [t \in Threads |-> NotPosting("idle")]
  /\ mpc = Idle
  /\ nposted = 0
  /\ executed = <<>>
  /\ dropped = {}
  /\ discarded = {}
  /\ fence_mark = -1
  /\ fence_deadline = 0
  /\ unsafe_calls = {}
  /\ non_nestable_task_queue = <<>>
  /\ heap_queue = [q \in {"this", "rhs"} |-> EmptyDelayedIncomingQueue]
  /\ heap_pushed = 0
  /\ heap_op = "none"
  /\ timer \in {TimerBase(kind) : kind \in Kinds}
  /\ tick_clock = 1
  /\ task_runner = NoTask
  /\ armed = NeverArmed
  /\ last_run = NoRun
  /\ domain = NewDomain
  /\ domain_call = NoDomainCall
  /\ priorities = NewPriorities

\* The posts that hold an operation token of task_poster_.
InPost(t) == th[t].pc \in {"prepped", "tail"}

\* The main thread is outside every queue operation and the queue is still
\* registered (and has a sequence manager): the state in which the main
\* thread starts an operation.
MainFree ==
  /\ mpc.op = "idle"
  /\ ~any_thread.unregistered
  /\ operations_controller # "setup"

\* One more post fits the bound.
MayPost == nposted + Cardinality({t \in Threads : th[t].pc = "prepped"}) < MaxTasks

IdsOf(queue) == {queue[i].id : i \in 1..Len(queue)}

\* Commit for the main thread's steps: the cancelled tasks that left the
\* delayed incoming queue were removed without being run.
CommitMain(w) ==
  /\ Commit(w)
  /\ discarded' = discarded \cup
       ({t.id : t \in {u \in main_thread_only.delayed_incoming_queue :
                         u.cancelled}}
        \ {t.id : t \in w.m.delayed_incoming_queue})

\* A locked part that asks the main thread's is_enabled whether to schedule
\* work, instead of the copy kept under the lock.
PostImmediateTaskImpl_Locked_ReadsEnabled(w, id, due, pseq, pdrt, time) ==
  LET queue_time == IF add_queue_time_to_tasks \/ w.m.delayed_fence_allowed
                      THEN time ELSE 0
      sequence_number == w.seq
      was_immediate_incoming_queue_empty == w.a.immediate_incoming_queue = <<>>
      task == NewTask(id, sequence_number, sequence_number, 0, queue_time,
                      due, pseq, pdrt)
      w1 == [Lock(w) EXCEPT !.seq = @ + 1,
                            !.a.immediate_incoming_queue = Append(@, task)]
      w2 == IF w.a.on_task_posted_handler
              THEN Callback(w1, "on_task_posted_handler") ELSE w1
      reload == /\ was_immediate_incoming_queue_empty
                /\ w.a.immediate_work_queue_empty
  IN [w |-> Unlock(IF reload THEN [w2 EXCEPT !.rf = TRUE] ELSE w2),
      should_schedule_work |-> reload /\ w.m.is_enabled]

\* ------------------------------------------------------------------ posting
\* A PostImmediateTaskImpl that sets the reload flag only when it is going to
\* call ScheduleWork.
PostImmediateTaskImpl_Locked_FlagWithWork(w, id, due, pseq, pdrt, time) ==
  LET queue_time == IF add_queue_time_to_tasks \/ w.m.delayed_fence_allowed
                      THEN time ELSE 0
      task == NewTask(id, w.seq, w.seq, 0, queue_time, due, pseq, pdrt)
      w1 == [Lock(w) EXCEPT !.seq = @ + 1,
                            !.a.immediate_incoming_queue = Append(@, task)]
      should_schedule_work ==
        /\ w.a.immediate_incoming_queue = <<>>
        /\ w.a.immediate_work_queue_empty
        /\ w.a.post_immediate_task_should_schedule_work
  IN [w |-> Unlock(IF should_schedule_work
                     THEN [w1 EXCEPT !.rf = TRUE] ELSE w1),
      should_schedule_work |-> should_schedule_work]

\* A PostImmediateTaskImpl that calls ScheduleWork before it releases
\* any_thread_lock_.
PostImmediateTaskImpl_Locked_SchedulesWork(w, id, due, pseq, pdrt, time) ==
  LET queue_time == IF add_queue_time_to_tasks \/ w.m.delayed_fence_allowed
                      THEN time ELSE 0
      task == NewTask(id, w.seq, w.seq, 0, queue_time, due, pseq, pdrt)
      w1 == [Lock(w) EXCEPT !.seq = @ + 1,
                            !.a.immediate_incoming_queue = Append(@, task)]
      reload == /\ w.a.immediate_incoming_queue = <<>>
                /\ w.a.immediate_work_queue_empty
      should_schedule_work ==
        reload /\ w.a.post_immediate_task_should_schedule_work
      w2 == IF reload THEN [w1 EXCEPT !.rf = TRUE] ELSE w1
  IN [w |-> Unlock(IF should_schedule_work THEN ScheduleWork(w2) ELSE w2),
      should_schedule_work |-> FALSE]

\* TaskQueueImpl::PostImmediateTaskImpl, the part under any_thread_lock_.
PostImmediateTaskImpl_Locked(w, id, due, pseq, pdrt, time) ==
  LET queue_time == IF add_queue_time_to_tasks \/ w.m.delayed_fence_allowed
                      THEN time ELSE 0
      sequence_number == w.seq
      was_immediate_incoming_queue_empty == w.a.immediate_incoming_queue = <<>>
      task == NewTask(id, sequence_number, sequence_number, 0, queue_time,
                      due, pseq, pdrt)
      w1 == [Lock(w) EXCEPT !.seq = @ + 1,
                            !.a.immediate_incoming_queue = Append(@, task)]
      w2 == IF w.a.on_task_posted_handler
              THEN Callback(w1, "on_task_posted_handler") ELSE w1
      reload == /\ was_immediate_incoming_queue_empty
                /\ w.a.immediate_work_queue_empty
  IN [w |-> Unlock(IF reload THEN [w2 EXCEPT !.rf = TRUE] ELSE w2),
      should_schedule_work |->
        reload /\ w.a.post_immediate_task_should_schedule_work]

\* A PostTask that posts although TryBeginOperation failed, and returns false.
PostTask_Rejected_Posts(t) ==
  /\ th[t].pc = "idle"
  /\ operations_controller # "accepting"
  /\ Commit(PostImmediateTaskImpl_Locked(WorldOf(t), nposted + 1, now, 0, 0,
                                         now).w)
  /\ th' = [th EXCEPT ![t] = NotPosting("returned_false")]
  /\ nposted' = nposted + 1
  /\ UNCHANGED <<standalone, now, operations_controller, mpc, executed, dropped,
                 discarded, fence_mark,
                 fence_deadline,
                 non_nestable_task_queue>>

\* GuardedTaskPoster::PostTask when TryBeginOperation fails: the post returns
\* false and the task is destroyed.
PostTask_Rejected(t) ==
  /\ th[t].pc = "idle"
  /\ operations_controller # "accepting"
  /\ th' = [th EXCEPT ![t] = NotPosting("returned_false")]
  /\ UNCHANGED <<standalone, now, next_sequence_number, work_pending, reload_flag,
                 delayed_wake_up_queue, operations_controller, any_thread,
                 main_thread_only, mpc, nposted, executed, dropped, discarded,
                 fence_mark,
                 fence_deadline, unsafe_calls,
                 non_nestable_task_queue>>

\* An immediate post from another thread, up to the release of the lock.
PostImmediate(t) ==
  /\ th[t].pc = "idle"
  /\ operations_controller = "accepting"
  /\ MayPost
  /\ LET r == PostImmediateTaskImpl_Locked(WorldOf(t), nposted + 1, now, 0, 0, now)
     IN /\ Commit(r.w)
        /\ th' = [th EXCEPT ![t] =
                    [pc |-> "tail", pseq |-> 0, pdrt |-> 0,
                     should_schedule_work |-> r.should_schedule_work]]
  /\ nposted' = nposted + 1
  /\ UNCHANGED <<standalone, now, operations_controller, mpc, executed, dropped,
                 discarded, fence_mark,
                 fence_deadline,
                 non_nestable_task_queue>>

\* PostImmediateTaskImpl after the lock: ScheduleWork if it was decided; the
\* post returns true.
PostTask_End(t) ==
  /\ th[t].pc = "tail"
  /\ Commit(IF th[t].should_schedule_work
              THEN ScheduleWork(WorldOf(t)) ELSE WorldOf(t))
  /\ th' = [th EXCEPT ![t] = NotPosting("idle")]
  /\ UNCHANGED <<standalone, now, operations_controller, mpc, nposted,
                 executed, dropped, discarded, fence_mark, fence_deadline,
                 non_nestable_task_queue>>

\* PostDelayedTaskImpl from another thread: the sequence number and, under the
\* lock, the time domain's clock.
PostDelayed_Prepare(t, delay) ==
  /\ th[t].pc = "idle"
  /\ operations_controller = "accepting"
  /\ MayPost
  /\ delay > 0
  /\ th' = [th EXCEPT ![t] =
              [pc |-> "prepped", pseq |-> next_sequence_number,
               pdrt |-> now + delay, should_schedule_work |-> FALSE]]
  /\ next_sequence_number' = next_sequence_number + 1
  /\ UNCHANGED <<standalone, now, work_pending, reload_flag, delayed_wake_up_queue,
                 operations_controller, any_thread, main_thread_only, mpc,
                 nposted, executed, dropped, discarded, fence_mark,
                 fence_deadline, unsafe_calls,
                 non_nestable_task_queue>>

\* PushOntoDelayedIncomingQueue: the helper task that carries the delayed
\* task is posted as an immediate task.
PushOntoDelayedIncomingQueue(t) ==
  /\ th[t].pc = "prepped"
  /\ LET r == PostImmediateTaskImpl_Locked(WorldOf(t), nposted + 1,
                                           th[t].pdrt, th[t].pseq, th[t].pdrt,
                                           now)
     IN /\ Commit(r.w)
        /\ th' = [th EXCEPT ![t] =
                    [pc |-> "tail", pseq |-> 0, pdrt |-> 0,
                     should_schedule_work |-> r.should_schedule_work]]
  /\ nposted' = nposted + 1
  /\ UNCHANGED <<standalone, now, operations_controller, mpc, executed, dropped,
                 discarded, fence_mark,
                 fence_deadline,
                 non_nestable_task_queue>>

\* An immediate post from the main thread.
PostImmediate_MainThread ==
  /\ MainFree
  /\ operations_controller = "accepting"
  /\ MayPost
  /\ LET r == PostImmediateTaskImpl_Locked(World, nposted + 1, now, 0, 0, now)
     IN Commit(IF r.should_schedule_work THEN ScheduleWork(r.w) ELSE r.w)
  /\ nposted' = nposted + 1
  /\ UNCHANGED <<standalone, now, operations_controller, th, mpc, executed, dropped,
                 discarded, fence_mark,
                 fence_deadline,
                 non_nestable_task_queue>>

\* PostDelayedTaskImpl on the main thread.
PostDelayedTaskImpl_MainThread(w, id, delay, time) ==
  LET sequence_number == w.seq
      time_domain_delayed_run_time == time + delay
      queue_time == IF add_queue_time_to_tasks THEN time ELSE 0
  IN PushOntoDelayedIncomingQueueFromMainThread(
       [w EXCEPT !.seq = @ + 1],
       NewTask(id, sequence_number, none, time_domain_delayed_run_time,
               queue_time, time_domain_delayed_run_time, 0, 0),
       time)

\* A delayed post from the main thread.
PostDelayed_MainThread(delay) ==
  /\ MainFree
  /\ operations_controller = "accepting"
  /\ MayPost
  /\ delay > 0
  /\ Commit(PostDelayedTaskImpl_MainThread(World, nposted + 1, delay, now))
  /\ nposted' = nposted + 1
  /\ UNCHANGED <<standalone, now, operations_controller, th, mpc, executed, dropped,
                 discarded, fence_mark,
                 fence_deadline,
                 non_nestable_task_queue>>

\* --------------------------------------------- main thread queue operations
\* The tasks of the three queues that hold an enqueue order.
OrderedTasks(w) ==
  w.m.immediate_work_queue.tasks \o w.m.delayed_work_queue.tasks
    \o w.a.immediate_incoming_queue

\* Some task of the queue is held back by the fence.
AnyTaskBlocked(w) ==
  /\ w.m.current_fence # none
  /\ \E i \in 1..Len(OrderedTasks(w)) :
       OrderedTasks(w)[i].eo >= w.m.current_fence

\* The front task of a work queue or of the incoming queue is held back by
\* the fence.
FrontTaskBlocked(w) ==
  /\ w.m.current_fence # none
  /\ \E queue \in {w.m.immediate_work_queue.tasks,
                   w.m.delayed_work_queue.tasks,
                   w.a.immediate_incoming_queue} :
       queue # <<>> /\ Head(queue).eo >= w.m.current_fence

\* InsertFence is called: the part before the lock.
InsertFence_Begin(position) ==
  /\ MainFree
  /\ next_sequence_number < MaxSeq
  /\ LET p == InsertFence_Pre(World, position)
     IN /\ CommitMain(p.w)
        /\ mpc' = [Idle EXCEPT !.op = "InsertFence",
                               !.previous_fence = p.previous_fence,
                               !.front_task_unblocked = p.front_task_unblocked]
  /\ fence_mark' = IF position = "kNow" THEN nposted ELSE -1
  /\ fence_deadline' = 0
  /\ UNCHANGED <<standalone, now, operations_controller, th, nposted, executed, dropped,
                 non_nestable_task_queue>>

\* InsertFence from the lock to its return.
InsertFence_End ==
  /\ mpc.op = "InsertFence"
  /\ LET l == InsertFence_Locked(World, mpc.previous_fence,
                                 mpc.front_task_unblocked)
     IN CommitMain(Fence_Tail(l.w, l.front_task_unblocked))
  /\ mpc' = Idle
  /\ UNCHANGED <<standalone, now, operations_controller, th, nposted, executed, dropped,
                 fence_mark,
                 fence_deadline,
                 non_nestable_task_queue>>

\* RemoveFence is called on a queue that has a fence or a delayed fence
\* (without one the call changes nothing): the part before the lock.
RemoveFence_Begin ==
  /\ MainFree
  /\ main_thread_only.current_fence # none \/ main_thread_only.delayed_fence # 0
  /\ LET p == RemoveFence_Pre(World)
     IN /\ CommitMain(p.w)
        /\ mpc' = [op |-> "RemoveFence",
                   previous_fence |-> p.previous_fence,
                   front_task_unblocked |-> p.front_task_unblocked,
                   any_blocked |-> AnyTaskBlocked(World),
                   front_blocked |-> FrontTaskBlocked(World), time |-> 0,
                   locals |-> {}]
  /\ fence_mark' = -1
  /\ fence_deadline' = 0
  /\ UNCHANGED <<standalone, now, operations_controller, th, nposted, executed, dropped,
                 non_nestable_task_queue>>

\* RemoveFence from the lock to its return.
RemoveFence_End ==
  /\ mpc.op = "RemoveFence"
  /\ LET l == RemoveFence_Locked(World, mpc.previous_fence,
                                 mpc.front_task_unblocked)
     IN CommitMain(Fence_Tail(l.w, l.front_task_unblocked))
  /\ mpc' = Idle
  /\ UNCHANGED <<standalone, now, operations_controller, th, nposted, executed, dropped,
                 fence_mark,
                 fence_deadline,
                 non_nestable_task_queue>>

\* TaskQueueImpl::InsertFenceAt, after RemoveFence has returned.
InsertFenceAt_Set(w, time) == [w EXCEPT !.m.delayed_fence = time]

\* InsertFenceAt is called, on a queue built with delayed_fence_allowed, with
\* a time ahead of the clock: RemoveFence, the part before the lock.
InsertFenceAt_Begin(time) ==
  /\ MainFree
  /\ main_thread_only.delayed_fence_allowed
  /\ time > now
  /\ LET p == RemoveFence_Pre(World)
     IN /\ CommitMain(p.w)
        /\ mpc' = [Idle EXCEPT !.op = "InsertFenceAt",
                               !.previous_fence = p.previous_fence,
                               !.front_task_unblocked = p.front_task_unblocked,
                               !.time = time]
  /\ fence_mark' = -1
  /\ fence_deadline' = 0
  /\ UNCHANGED <<standalone, now, operations_controller, th, nposted, executed, dropped,
                 non_nestable_task_queue>>

\* InsertFenceAt from the lock of RemoveFence to its return.
InsertFenceAt_End ==
  /\ mpc.op = "InsertFenceAt"
  /\ LET l == RemoveFence_Locked(World, mpc.previous_fence,
                                 mpc.front_task_unblocked)
     IN CommitMain(InsertFenceAt_Set(Fence_Tail(l.w, l.front_task_unblocked),
                                     mpc.time))
  /\ mpc' = Idle
  /\ fence_deadline' = mpc.time
  /\ UNCHANGED <<standalone, now, operations_controller, th, nposted, executed, dropped,
                 fence_mark,
                 non_nestable_task_queue>>

\* SetQueueEnabled is called with a value that differs from is_enabled: the
\* part before the lock.
SetQueueEnabled_Begin(enabled) ==
  /\ MainFree
  /\ enabled => next_sequence_number < MaxSeq
  /\ main_thread_only.is_enabled # enabled
  /\ CommitMain(SetQueueEnabled_Pre(World, enabled, now))
  /\ mpc' = [Idle EXCEPT !.op = "SetQueueEnabled"]
  /\ UNCHANGED <<standalone, now, operations_controller, th, nposted, executed, dropped,
                 fence_mark,
                 fence_deadline,
                 non_nestable_task_queue>>

\* SetQueueEnabled from the lock to its return.
SetQueueEnabled_End ==
  /\ mpc.op = "SetQueueEnabled"
  /\ LET l == SetQueueEnabled_Locked(World)
     IN CommitMain(SetQueueEnabled_Tail(l.w, main_thread_only.is_enabled,
                                        l.has_pending_immediate_work, now))
  /\ mpc' = Idle
  /\ UNCHANGED <<standalone, now, operations_controller, th, nposted, executed, dropped,
                 fence_mark,
                 fence_deadline,
                 non_nestable_task_queue>>

\* ------------------------------------- the queue's operations, with priority
\* The operation leaves w: the queue's state and its priority are kept.
CommitPriorities(w) ==
  /\ CommitMain(w)
  /\ priorities' = w.p

\* SetQueuePriority is called.
SetQueuePriority_Call(priority, os_win) ==
  /\ MainFree
  /\ next_sequence_number < MaxSeq
  /\ CommitPriorities(SetQueuePriority(World, priority, os_win, now))
  /\ UNCHANGED <<heap_vars, timer_vars, domain_vars, now,
                 operations_controller, th, mpc, nposted, executed, dropped,
                 fence_mark, fence_deadline, non_nestable_task_queue>>

\* InsertFence is called and returns.
Priority_InsertFence(position) ==
  /\ MainFree
  /\ next_sequence_number < MaxSeq
  /\ LET p == InsertFence_Pre(World, position)
         l == InsertFence_Locked(p.w, p.previous_fence,
                                 p.front_task_unblocked)
     IN CommitPriorities(Fence_Tail(l.w, l.front_task_unblocked))
  /\ fence_mark' = IF position = "kNow" THEN nposted ELSE -1
  /\ fence_deadline' = 0
  /\ UNCHANGED <<heap_vars, timer_vars, domain_vars, now,
                 operations_controller, th, mpc, nposted, executed, dropped,
                 non_nestable_task_queue>>

\* RemoveFence is called on a queue that has a fence, and returns.
Priority_RemoveFence ==
  /\ MainFree
  /\ next_sequence_number < MaxSeq
  /\ main_thread_only.current_fence # none
  /\ LET p == RemoveFence_Pre(World)
         l == RemoveFence_Locked(p.w, p.previous_fence,
                                 p.front_task_unblocked)
     IN CommitPriorities(Fence_Tail(l.w, l.front_task_unblocked))
  /\ fence_mark' = -1
  /\ fence_deadline' = 0
  /\ UNCHANGED <<heap_vars, timer_vars, domain_vars, now,
                 operations_controller, th, mpc, nposted, executed, dropped,
                 non_nestable_task_queue>>

\* SetQueueEnabled is called with a value that differs from is_enabled, and
\* returns.
Priority_SetQueueEnabled(enabled) ==
  /\ MainFree
  /\ next_sequence_number < MaxSeq
  /\ main_thread_only.is_enabled # enabled
  /\ LET l == SetQueueEnabled_Locked(
                SetQueueEnabled_Pre(World, enabled, now))
     IN CommitPriorities(
          SetQueueEnabled_Tail(l.w, enabled, l.has_pending_immediate_work,
                               now))
  /\ UNCHANGED <<heap_vars, timer_vars, domain_vars, now,
                 operations_controller, th, mpc, nposted, executed, dropped,
                 fence_mark, fence_deadline, non_nestable_task_queue>>

\* ------------------------------------------------------------------ DoWork
\* SequenceManagerImpl::ReloadEmptyWorkQueues: the queue whose flag is active
\* reloads its immediate work queue, if that is empty.
ReloadEmptyWorkQueues(w) ==
  IF ~w.rf THEN w
  ELSE LET w1 == [w EXCEPT !.rf = FALSE]
       IN IF w1.m.immediate_work_queue.tasks = <<>>
            THEN ReloadEmptyImmediateWorkQueue(w1) ELSE w1

\* TaskQueueImpl::NotifyWillProcessTask and NotifyDidProcessTask: the task
\* observers are called around the task, as the sequence manager runs it.
NotifyWillProcessTask(w) == Callback(w, "WillProcessTask")
NotifyDidProcessTask(w) == Callback(w, "DidProcessTask")

\* The selected task is taken from its work queue and run; r.ran is the user
\* task that ran, if one did.  The callback of a helper task is
\* ScheduleDelayedWorkTask.
SelectAndRunTask(w, time) ==
  IF ReadyWorkQueues(w) = {} THEN [w |-> w, ran |-> <<>>]
  ELSE LET name == SelectWorkQueue(w)
           task == Head(WorkQueueOf(w, name).tasks)
           w1 == NotifyWillProcessTask(TakeTaskFromWorkQueue(w, name))
       IN IF IsHelper(task)
            THEN [w |-> NotifyDidProcessTask(
                          ScheduleDelayedWorkTask(w1, PendingTaskOf(task),
                                                  time)),
                  ran |-> <<>>]
            ELSE [w |-> NotifyDidProcessTask(w1),
                  ran |-> <<[id |-> task.id, eo |-> task.eo, drt |-> task.drt,
                             due |-> task.due, at |-> time]>>]

\* One DoWork of the sequence manager, which another queue's work may cause
\* at any time: empty work queues are reloaded, ready delayed tasks are moved
\* (TimeDomain::MoveReadyDelayedTasksToWorkQueues of each time domain) and one
\* task is run.
DoWork ==
  /\ MainFree
  /\ LET w1 == ReloadEmptyWorkQueues([World EXCEPT !.wp = FALSE])
         w2 == MoveReadyDelayedTasksToWorkQueues(
                 MoveReadyDelayedTasksToWorkQueues(w1, "d1", now), "d2", now)
         r == SelectAndRunTask(w2, now)
     IN /\ CommitMain(r.w)
        /\ executed' = executed \o r.ran
  /\ UNCHANGED <<standalone, now, operations_controller, th, mpc, nposted, dropped,
                 fence_mark,
                 fence_deadline,
                 non_nestable_task_queue>>

\* ------------------------------------------- DoWork, one lock section a step
\* SequenceManagerImpl::ReloadEmptyWorkQueues drains the flags, which are read
\* and cleared without a lock.
ReloadEmptyWorkQueues_Drain ==
  /\ MainFree
  /\ reload_flag
  /\ CommitMain([World EXCEPT !.rf = FALSE])
  /\ mpc' = [Idle EXCEPT !.op = "ReloadEmptyWorkQueues"]
  /\ UNCHANGED <<standalone, now, operations_controller, th, nposted,
                 executed, dropped, fence_mark, fence_deadline,
                 non_nestable_task_queue>>

\* The queue whose flag was set reloads its immediate work queue, if that is
\* empty: ReloadEmptyImmediateWorkQueue, which takes the lock.
ReloadEmptyWorkQueues_Reload ==
  /\ mpc.op = "ReloadEmptyWorkQueues"
  /\ CommitMain(IF main_thread_only.immediate_work_queue.tasks = <<>>
                  THEN ReloadEmptyImmediateWorkQueue(World) ELSE World)
  /\ mpc' = Idle
  /\ UNCHANGED <<standalone, now, operations_controller, th, nposted,
                 executed, dropped, fence_mark, fence_deadline,
                 non_nestable_task_queue>>

\* WorkQueue::TakeTaskFromWorkQueue up to the lock: the selected task leaves
\* the front of the immediate work queue.  Inside a nested run loop a
\* non-nestable task is deferred; any other task is run.
TakeTaskFromWorkQueue_Pop(deferred) ==
  /\ MainFree
  /\ ReadyWorkQueues(World) # {}
  /\ SelectWorkQueue(World) = "immediate"
  /\ LET task == Head(main_thread_only.immediate_work_queue.tasks)
     IN /\ ~IsHelper(task)
        /\ deferred => non_nestable_task_queue = <<>>
        /\ CommitMain([World EXCEPT !.m.immediate_work_queue.tasks = Tail(@),
                                    !.wp = FALSE])
        /\ non_nestable_task_queue' =
             IF deferred THEN <<task>> ELSE non_nestable_task_queue
        /\ executed' =
             IF deferred THEN executed
             ELSE Append(executed,
                         [id |-> task.id, eo |-> task.eo, drt |-> task.drt,
                          due |-> task.due, at |-> now])
  /\ mpc' = [Idle EXCEPT !.op = "TakeTaskFromWorkQueue"]
  /\ UNCHANGED <<standalone, now, operations_controller, th, nposted,
                 dropped, fence_mark, fence_deadline>>

\* WorkQueue::TakeTaskFromWorkQueue from the lock: an immediate work queue
\* that became empty is reloaded at once.
TakeTaskFromWorkQueue_Reload ==
  /\ mpc.op = "TakeTaskFromWorkQueue"
  /\ CommitMain(IF main_thread_only.immediate_work_queue.tasks = <<>>
                  THEN TakeImmediateIncomingQueueTasks(World) ELSE World)
  /\ mpc' = Idle
  /\ UNCHANGED <<standalone, now, operations_controller, th, nposted,
                 executed, dropped, fence_mark, fence_deadline,
                 non_nestable_task_queue>>

\* A RequeueDeferredNonNestableTask that gives the task a new enqueue order.
RequeueDeferredNonNestableTask_NewOrder(w, task) ==
  IF task.drt # 0
    THEN [w EXCEPT !.seq = @ + 1,
                   !.m.delayed_work_queue.tasks =
                      <<[task EXCEPT !.eo = w.seq]>> \o @]
    ELSE [w EXCEPT !.seq = @ + 1,
                   !.m.immediate_work_queue.tasks =
                      <<[task EXCEPT !.eo = w.seq]>> \o @]

\* TaskQueueImpl::RequeueDeferredNonNestableTask.  work_queue_type is
\* kDelayed for the tasks that have a delayed_run_time: they were taken from
\* the delayed work queue, every other task from the immediate work queue.
RequeueDeferredNonNestableTask(w, task) ==
  IF task.drt # 0
    THEN [w EXCEPT !.m.delayed_work_queue.tasks = <<task>> \o @]
  ELSE IF w.m.immediate_work_queue.tasks = <<>>
    THEN Unlock([Lock(w) EXCEPT
                   !.rf = FALSE,
                   !.a.immediate_work_queue_empty = FALSE,
                   !.m.immediate_work_queue.tasks = <<task>> \o @])
    ELSE [w EXCEPT !.m.immediate_work_queue.tasks = <<task>> \o @]

\* The nested run loop has ended: the deferred task is requeued.
RequeueDeferredNonNestableTask_Call ==
  /\ MainFree
  /\ non_nestable_task_queue # <<>>
  /\ CommitMain(RequeueDeferredNonNestableTask(
                  World, Head(non_nestable_task_queue)))
  /\ non_nestable_task_queue' = Tail(non_nestable_task_queue)
  /\ UNCHANGED <<standalone, now, operations_controller, th, mpc, nposted,
                 executed, dropped, fence_mark, fence_deadline>>

\* One DoWork of the sequence manager inside a nested run loop, when the
\* selected task is non-nestable (a helper task is): the task is taken from
\* its work queue and deferred.
DoWork_Nested ==
  /\ MainFree
  /\ non_nestable_task_queue = <<>>
  /\ LET w1 == ReloadEmptyWorkQueues([World EXCEPT !.wp = FALSE])
         w2 == MoveReadyDelayedTasksToWorkQueues(
                 MoveReadyDelayedTasksToWorkQueues(w1, "d1", now), "d2", now)
     IN /\ ReadyWorkQueues(w2) # {}
        /\ CommitMain(TakeTaskFromWorkQueue(w2, SelectWorkQueue(w2)))
        /\ non_nestable_task_queue' =
             <<Head(WorkQueueOf(w2, SelectWorkQueue(w2)).tasks)>>
  /\ UNCHANGED <<standalone, now, operations_controller, th, mpc, nposted,
                 executed, dropped, fence_mark, fence_deadline>>

\* ------------------------------------------------- cancellation and sweeping
\* The callback of a task waiting in the delayed incoming queue is cancelled
\* (its weak pointer is invalidated).
CancelTask ==
  /\ MainFree
  /\ \E task \in main_thread_only.delayed_incoming_queue :
       /\ ~task.cancelled
       /\ main_thread_only' =
            [main_thread_only EXCEPT !.delayed_incoming_queue =
               (@ \ {task}) \cup {[task EXCEPT !.cancelled = TRUE]}]
  /\ UNCHANGED <<standalone, now, next_sequence_number, work_pending, reload_flag,
                 delayed_wake_up_queue, operations_controller, any_thread, th,
                 mpc, nposted, executed, dropped, discarded, fence_mark,
                 fence_deadline, unsafe_calls,
                 non_nestable_task_queue>>

\* ReclaimMemory is called.
ReclaimMemory_Call ==
  /\ MainFree
  /\ \E task \in main_thread_only.delayed_incoming_queue : task.cancelled
  /\ CommitMain(ReclaimMemory(World, now))
  /\ UNCHANGED <<standalone, now, operations_controller, th, mpc, nposted, executed,
                 dropped, fence_mark,
                 fence_deadline,
                 non_nestable_task_queue>>

\* ------------------------------------------------- time domains, observer
\* SetTimeDomain is called with the time domain the queue is not in.
SetTimeDomain_Call ==
  /\ MainFree
  /\ \E time_domain \in TimeDomains \ {main_thread_only.time_domain} :
       CommitMain(SetTimeDomain(World, time_domain, now))
  /\ UNCHANGED <<standalone, now, operations_controller, th, mpc, nposted, executed,
                 dropped, fence_mark,
                 fence_deadline,
                 non_nestable_task_queue>>

\* SetObserver is called: an observer is set on a queue that has none, or the
\* observer is removed.
SetObserver_Call ==
  /\ MainFree
  /\ CommitMain(SetObserver(World, ~main_thread_only.task_queue_observer))
  /\ UNCHANGED <<standalone, now, operations_controller, th, mpc, nposted, executed,
                 dropped, fence_mark,
                 fence_deadline,
                 non_nestable_task_queue>>

\* SetOnTaskPostedHandler is called with a handler, or with a null one.
SetOnTaskPostedHandler_Call ==
  /\ MainFree
  /\ CommitMain(SetOnTaskPostedHandler(World,
                                       ~any_thread.on_task_posted_handler))
  /\ UNCHANGED <<standalone, now, operations_controller, th, mpc, nposted,
                 executed, dropped, fence_mark, fence_deadline,
                 non_nestable_task_queue>>

\* ------------------------------------------------------------ unregistering
\* UnregisterTaskQueue is called: ShutdownAndWaitForZeroOperations closes the
\* gate, then waits.
UnregisterTaskQueue_Shutdown ==
  /\ MainFree
  /\ operations_controller = "accepting"
  /\ operations_controller' = "shutdown"
  /\ mpc' = [Idle EXCEPT !.op = "UnregisterTaskQueue"]
  /\ UNCHANGED <<standalone, now, next_sequence_number, work_pending, reload_flag,
                 delayed_wake_up_queue, any_thread, main_thread_only, th,
                 nposted, executed, dropped, discarded, fence_mark,
                 fence_deadline, unsafe_calls,
                 non_nestable_task_queue>>

\* The posts waiting in the queue.
QueuedIds(w) ==
  IdsOf(OrderedTasks(w)) \cup {t.id : t \in w.m.delayed_incoming_queue}

\* TaskQueueImpl::UnregisterTaskQueue after the wait; TimeDomain::UnregisterQueue
\* erases the queue's wake-up.
UnregisterTaskQueue(w, time) ==
  LET w1 == [w EXCEPT !.a.unregistered = TRUE,
                      !.a.time_domain = nullptr,
                      !.a.immediate_incoming_queue = <<>>]
      w2 == SetNextWakeUpForQueue(w1, NoWakeUp, time)
  IN [w2 EXCEPT !.m.time_domain = nullptr,
                !.m.task_queue_observer = FALSE,
                !.rf = FALSE,
                !.m.delayed_incoming_queue = {},
                !.m.immediate_work_queue = EmptyWorkQueue,
                !.m.delayed_work_queue = EmptyWorkQueue]

\* An UnregisterTaskQueue that does not wait for the posts in progress.
UnregisterTaskQueue_Finish_NoWait ==
  /\ mpc.op = "UnregisterTaskQueue"
  /\ Commit(UnregisterTaskQueue(World, now))
  /\ dropped' = dropped \cup QueuedIds(World)
  /\ mpc' = Idle
  /\ UNCHANGED <<standalone, now, operations_controller, th, nposted, executed, discarded,
                 fence_mark,
                 fence_deadline,
                 non_nestable_task_queue>>

\* The wait is over when no post holds a token; the queue is emptied.
UnregisterTaskQueue_Finish ==
  /\ mpc.op = "UnregisterTaskQueue"
  /\ \A t \in Threads : ~InPost(t)
  /\ Commit(UnregisterTaskQueue(World, now))
  /\ dropped' = dropped \cup QueuedIds(World)
  /\ mpc' = Idle
  /\ UNCHANGED <<standalone, now, operations_controller, th, nposted, executed, discarded,
                 fence_mark,
                 fence_deadline,
                 non_nestable_task_queue>>

\* --------------------------------- unregistering, one lock section a step
\* An unlocked part of UnregisterTaskQueue that keeps the reload flag.
UnregisterTaskQueue_Unlocked_KeepsFlag(w, time) ==
  [SetNextWakeUpForQueue(w, NoWakeUp, time) EXCEPT
     !.m.time_domain = nullptr,
     !.m.task_queue_observer = FALSE,
     !.m.delayed_incoming_queue = {},
     !.m.immediate_work_queue = EmptyWorkQueue,
     !.m.delayed_work_queue = EmptyWorkQueue]

\* TaskQueueImpl::UnregisterTaskQueue under any_thread_lock_: the immediate
\* incoming queue is swapped into a local.
UnregisterTaskQueue_Locked(w) ==
  Unlock([Lock(w) EXCEPT !.a.unregistered = TRUE,
                         !.a.time_domain = nullptr,
                         !.a.immediate_incoming_queue = <<>>])

\* TaskQueueImpl::UnregisterTaskQueue from the lock to the closing brace:
\* TimeDomain::UnregisterQueue, the fields cleared, the reload flag released,
\* the delayed incoming queue swapped and the work queues moved into locals.
UnregisterTaskQueue_Unlocked(w, time) ==
  [SetNextWakeUpForQueue(w, NoWakeUp, time) EXCEPT
     !.m.time_domain = nullptr,
     !.m.task_queue_observer = FALSE,
     !.rf = FALSE,
     !.m.delayed_incoming_queue = {},
     !.m.immediate_work_queue = EmptyWorkQueue,
     !.m.delayed_work_queue = EmptyWorkQueue]

\* The wait is over: the main thread takes the lock.  mpc.locals are the
\* posts whose tasks the locals of the function hold.
UnregisterTaskQueue_TakeLock ==
  /\ mpc.op = "UnregisterTaskQueue"
  /\ \A t \in Threads : ~InPost(t)
  /\ Commit(UnregisterTaskQueue_Locked(World))
  /\ mpc' = [mpc EXCEPT
               !.op = "UnregisterTaskQueue_Unlocked",
               !.locals = IdsOf(any_thread.immediate_incoming_queue)]
  /\ UNCHANGED <<standalone, now, operations_controller, th, nposted,
                 executed, dropped, discarded, fence_mark, fence_deadline,
                 non_nestable_task_queue>>

\* The main thread, having released the lock, clears the fields and moves
\* the queues into locals.
UnregisterTaskQueue_Clear ==
  /\ mpc.op = "UnregisterTaskQueue_Unlocked"
  /\ Commit(UnregisterTaskQueue_Unlocked(World, now))
  /\ mpc' = [mpc EXCEPT !.op = "UnregisterTaskQueue_Return",
                        !.locals = @ \cup QueuedIds(World)]
  /\ UNCHANGED <<standalone, now, operations_controller, th, nposted,
                 executed, dropped, discarded, fence_mark, fence_deadline,
                 non_nestable_task_queue>>

\* UnregisterTaskQueue returns: its locals are destroyed, and the tasks they
\* hold.
UnregisterTaskQueue_Return ==
  /\ mpc.op = "UnregisterTaskQueue_Return"
  /\ dropped' = dropped \cup mpc.locals
  /\ mpc' = Idle
  /\ UNCHANGED <<standalone, now, next_sequence_number, work_pending,
                 reload_flag, delayed_wake_up_queue, operations_controller,
                 any_thread, main_thread_only, th, nposted, executed,
                 discarded, fence_mark, fence_deadline, unsafe_calls,
                 non_nestable_task_queue>>

UnregisteringInSteps ==
  \/ \E t \in Threads : PostTask_Rejected(t)
  \/ UnregisterTaskQueue_Shutdown
  \/ UnregisterTaskQueue_TakeLock
  \/ UnregisterTaskQueue_Clear
  \/ UnregisterTaskQueue_Return

\* -------------------------------------------------------------------- time
\* The time domain's clock advances, up to its bound and up to the time of a
\* delayed fence that waits.
Tick ==
  /\ now < MaxTime \/ now < main_thread_only.delayed_fence
  /\ now' = now + 1
  /\ UNCHANGED <<standalone, next_sequence_number, work_pending, reload_flag,
                 delayed_wake_up_queue, operations_controller, any_thread,
                 main_thread_only, th, mpc, nposted, executed, dropped,
                 discarded, fence_mark,
                 fence_deadline, unsafe_calls,
                 non_nestable_task_queue>>

\* --------------------------------- operations on the DelayedIncomingQueue
\* A delayed task is pushed (PushOntoDelayedIncomingQueueFromMainThread,
\* ScheduleDelayedWorkTask).
Heap_push ==
  /\ heap_pushed < MaxPushes
  /\ \E drt \in RunTimes, is_high_res \in BOOLEAN :
       heap_queue' =
         [heap_queue EXCEPT !["this"] =
            DelayedIncomingQueue_push(
              @, [drt |-> drt, seq |-> heap_pushed + 1,
                  is_high_res |-> is_high_res, cancelled |-> FALSE])]
  /\ heap_pushed' = heap_pushed + 1
  /\ heap_op' = "push"
  /\ UNCHANGED <<queue_vars, priority_vars, domain_vars, timer_vars>>

\* The top task is popped (MoveReadyDelayedTasksToWorkQueue).
Heap_pop ==
  /\ heap_queue["this"].c # <<>>
  /\ \E q \in DelayedIncomingQueue_pop(heap_queue["this"]) :
       heap_queue' = [heap_queue EXCEPT !["this"] = q]
  /\ heap_op' = "pop"
  /\ UNCHANGED <<queue_vars, priority_vars, domain_vars, timer_vars, heap_pushed>>

\* DelayedIncomingQueue::swap (UnregisterTaskQueue).
Heap_swap ==
  /\ heap_queue' = [heap_queue EXCEPT !["this"] = heap_queue["rhs"],
                                      !["rhs"] = heap_queue["this"]]
  /\ heap_op' = "swap"
  /\ UNCHANGED <<queue_vars, priority_vars, domain_vars, timer_vars, heap_pushed>>

\* The callback of a task in the queue is cancelled.
Heap_Cancel ==
  /\ \E i \in 1..Len(heap_queue["this"].c) :
       /\ ~heap_queue["this"].c[i].cancelled
       /\ heap_queue' = [heap_queue EXCEPT !["this"].c[i].cancelled = TRUE]
  /\ heap_op' = "cancel"
  /\ UNCHANGED <<queue_vars, priority_vars, domain_vars, timer_vars, heap_pushed>>

\* ReclaimMemory: an empty queue is left alone, any other is swept.
Heap_ReclaimMemory ==
  /\ IF heap_queue["this"].c = <<>>
       THEN UNCHANGED heap_queue
       ELSE \E q \in DelayedIncomingQueue_SweepCancelledTasks(
                        heap_queue["this"]) :
              heap_queue' = [heap_queue EXCEPT !["this"] = q]
  /\ heap_op' = "ReclaimMemory"
  /\ UNCHANGED <<queue_vars, priority_vars, domain_vars, timer_vars, heap_pushed>>

\* ---------------------------------------------------- operations on a timer
\* The timer's operation leaves tw.  An invocation of the user task it made
\* becomes the last one of the history.
CommitTimer(tw, fire_now, arm) ==
  /\ timer' = tw.timer
  /\ task_runner' = tw.task_runner
  /\ armed' = [arm EXCEPT
                 !.posts = IF @ + tw.posted > 2 THEN 2 ELSE @ + tw.posted,
                 !.runs = IF @ + Len(tw.invoked) > 2 THEN 2
                          ELSE @ + Len(tw.invoked)]
  /\ last_run' = IF tw.invoked = <<>> THEN last_run
                 ELSE [time |-> tw.invoked[1].time, fire_now |-> fire_now,
                       previous |-> last_run.time]

\* Start is called.
Timer_Start ==
  /\ ~timer.destructed
  /\ \E delay \in TimerDelays, user_task \in Closures :
       CommitTimer(Start(TimerWorld, delay, user_task, tick_clock), FALSE,
                   [by |-> "Start", time |-> tick_clock, delay |-> delay,
                    task |-> user_task, posts |-> 0, runs |-> 0,
                    abandoned_ended |-> FALSE])
  /\ UNCHANGED <<queue_vars, priority_vars, domain_vars, heap_vars, tick_clock>>

\* Start is called and the task runner does not accept the task.
Timer_Start_Rejected ==
  /\ ~timer.destructed
  /\ \E delay \in TimerDelays, user_task \in Closures :
       CommitTimer(Start([TimerWorld EXCEPT !.accepts = FALSE], delay,
                         user_task, tick_clock), FALSE,
                   [by |-> "Start", time |-> tick_clock, delay |-> delay,
                    task |-> user_task, posts |-> 0, runs |-> 0,
                    abandoned_ended |-> FALSE])
  /\ UNCHANGED <<queue_vars, priority_vars, domain_vars, heap_vars, tick_clock>>

\* Reset is called on a timer that has a user task.
Timer_Reset ==
  /\ ~timer.destructed
  /\ timer.user_task # NullCallback
  /\ CommitTimer(Reset(TimerWorld, tick_clock), FALSE,
                 [by |-> "Reset", time |-> tick_clock, delay |-> timer.delay,
                  task |-> armed.task, posts |-> 0, runs |-> 0,
                  abandoned_ended |-> FALSE])
  /\ UNCHANGED <<queue_vars, priority_vars, domain_vars, heap_vars, tick_clock>>

\* Reset is called on a timer that has no user task: one on which Start was
\* never called, or a OneShotTimer that was stopped or has run its task.
Timer_Reset_Unset ==
  /\ ~timer.destructed
  /\ timer.user_task = NullCallback
  /\ CommitTimer(Reset(TimerWorld, tick_clock), FALSE,
                 [by |-> "Reset", time |-> tick_clock, delay |-> timer.delay,
                  task |-> NullCallback, posts |-> 0, runs |-> 0,
                  abandoned_ended |-> FALSE])
  /\ UNCHANGED <<queue_vars, priority_vars, domain_vars, heap_vars, tick_clock>>

\* Stop is called.
Timer_Stop ==
  /\ ~timer.destructed
  /\ CommitTimer(Stop(TimerWorld), FALSE, armed)
  /\ UNCHANGED <<queue_vars, priority_vars, domain_vars, heap_vars, tick_clock>>

\* FireNow is called on a running OneShotTimer.
Timer_FireNow ==
  /\ ~timer.destructed
  /\ timer.kind = "OneShotTimer"
  /\ timer.is_running
  /\ CommitTimer(FireNow(TimerWorld, tick_clock), TRUE, armed)
  /\ UNCHANGED <<queue_vars, priority_vars, domain_vars, heap_vars, tick_clock>>

\* AbandonAndStop is called.
Timer_AbandonAndStop ==
  /\ ~timer.destructed
  /\ CommitTimer(AbandonAndStop(TimerWorld), FALSE, armed)
  /\ UNCHANGED <<queue_vars, priority_vars, domain_vars, heap_vars, tick_clock>>

\* The timer is destroyed.
Timer_Destructor ==
  /\ ~timer.destructed
  /\ CommitTimer(TimerBase_Destructor(TimerWorld), FALSE, armed)
  /\ UNCHANGED <<queue_vars, priority_vars, domain_vars, heap_vars, tick_clock>>

\* The task runner runs the scheduled task, when its delay has passed or
\* later.
Timer_RunScheduledTask ==
  /\ task_runner.due # 0
  /\ tick_clock >= task_runner.due
  /\ CommitTimer(RunTask(ScheduledTaskTaken(TimerWorld), TRUE, tick_clock),
                 FALSE, armed)
  /\ UNCHANGED <<queue_vars, priority_vars, domain_vars, heap_vars, tick_clock>>

\* The task runner runs the scheduled task and accepts no task while it does.
Timer_RunScheduledTask_Rejecting ==
  /\ task_runner.due # 0
  /\ tick_clock >= task_runner.due
  /\ CommitTimer(RunTask([ScheduledTaskTaken(TimerWorld) EXCEPT
                            !.accepts = FALSE], TRUE, tick_clock),
                 FALSE, armed)
  /\ UNCHANGED <<queue_vars, priority_vars, domain_vars, heap_vars, tick_clock>>

\* The task runner destroys the scheduled task without running it.
Timer_TaskDestroyed ==
  /\ task_runner.due # 0
  /\ CommitTimer(TaskDestructionDetector_Destructor(
                   ScheduledTaskTaken(TimerWorld)), FALSE, armed)
  /\ UNCHANGED <<queue_vars, priority_vars, domain_vars, heap_vars, tick_clock>>

\* The task runner runs a task the timer has abandoned, when its delay has
\* passed or later.
Timer_AbandonedTaskRuns ==
  /\ \E task \in task_runner.abandoned :
       /\ tick_clock >= task.due
       /\ CommitTimer(RunTask(AbandonedTaskTaken(TimerWorld, task), task.valid,
                              tick_clock), FALSE,
                      [armed EXCEPT !.abandoned_ended = TRUE])
  /\ UNCHANGED <<queue_vars, priority_vars, domain_vars, heap_vars, tick_clock>>

\* The task runner destroys a task the timer has abandoned without running
\* it.
Timer_AbandonedTaskDestroyed ==
  /\ \E task \in task_runner.abandoned :
       CommitTimer(TaskDestructionDetector_Destructor(
                     AbandonedTaskTaken(TimerWorld, task)), FALSE,
                   [armed EXCEPT !.abandoned_ended = TRUE])
  /\ UNCHANGED <<queue_vars, priority_vars, domain_vars, heap_vars, tick_clock>>

\* The timer's clock advances.
Timer_Tick ==
  /\ tick_clock < MaxTicks
  /\ tick_clock' = tick_clock + 1
  /\ UNCHANGED <<queue_vars, priority_vars, domain_vars, heap_vars, timer, task_runner, armed, last_run>>

\* ----------------------------------------------------------- specifications
\* Immediate posts from every thread.
PostingImmediate ==
  \/ \E t \in Threads : PostImmediate(t)
  \/ \E t \in Threads : PostTask_End(t)
  \/ PostImmediate_MainThread

\* Immediate posts from the main thread and from one other thread.
PostingImmediateTwo ==
  \/ PostImmediate("t1")
  \/ PostTask_End("t1")
  \/ PostImmediate_MainThread

\* Delayed posts from the main thread.
PostingDelayedMain == \E delay \in Delays : PostDelayed_MainThread(delay)

\* Delayed posts from one other thread.
PostingDelayedOther ==
  \/ \E delay \in Delays : PostDelayed_Prepare("t1", delay)
  \/ PushOntoDelayedIncomingQueue("t1")

Fencing ==
  \/ \E position \in {"kNow", "kBeginningOfTime"} : InsertFence_Begin(position)
  \/ InsertFence_End
  \/ RemoveFence_Begin
  \/ RemoveFence_End

\* InsertFenceAt, with the time at which the clock stops or one past it.
FencingAt ==
  \/ \E time \in {MaxTime, MaxTime + 1} : InsertFenceAt_Begin(time)
  \/ InsertFenceAt_End

Enabling ==
  \/ \E enabled \in BOOLEAN : SetQueueEnabled_Begin(enabled)
  \/ SetQueueEnabled_End

Unregistering ==
  \/ \E t \in Threads : PostTask_Rejected(t)
  \/ UnregisterTaskQueue_Shutdown
  \/ UnregisterTaskQueue_Finish

Sweeping ==
  \/ CancelTask
  \/ ReclaimMemory_Call

Configuring ==
  \/ SetTimeDomain_Call
  \/ SetObserver_Call

PriorityOperations ==
  \/ \E priority \in QueuePriorities, os_win \in BOOLEAN :
       SetQueuePriority_Call(priority, os_win)
  \/ \E position \in {"kNow", "kBeginningOfTime"} :
       Priority_InsertFence(position)
  \/ Priority_RemoveFence
  \/ \E enabled \in BOOLEAN : Priority_SetQueueEnabled(enabled)

TimerOperations ==
  \/ Timer_Start
  \/ Timer_Reset
  \/ Timer_Stop
  \/ Timer_FireNow
  \/ Timer_RunScheduledTask
  \/ Timer_TaskDestroyed
  \/ Timer_AbandonedTaskRuns
  \/ Timer_AbandonedTaskDestroyed
  \/ Timer_Tick

\* What else happens to a timer: the task runner does not accept a task, the
\* scheduled task is abandoned, the timer is destroyed.
TimerEndings ==
  \/ Timer_Start_Rejected
  \/ Timer_RunScheduledTask_Rejecting
  \/ Timer_AbandonAndStop
  \/ Timer_Destructor

HeapOperations ==
  \/ Heap_push
  \/ Heap_pop
  \/ Heap_swap
  \/ Heap_Cancel
  \/ Heap_ReclaimMemory

\* The steps of a DoWork, and the requeue of a deferred task.
Reloading ==
  \/ ReloadEmptyWorkQueues_Drain
  \/ ReloadEmptyWorkQueues_Reload
  \/ \E deferred \in BOOLEAN : TakeTaskFromWorkQueue_Pop(deferred)
  \/ TakeTaskFromWorkQueue_Reload
  \/ RequeueDeferredNonNestableTask_Call

\* Every operation of the model.
Next ==
  \/ PostingImmediate
  \/ PostingDelayedMain
  \/ PostingDelayedOther
  \/ Fencing
  \/ FencingAt
  \/ Enabling
  \/ SetOnTaskPostedHandler_Call
  \/ Reloading
  \/ Unregistering
  \/ Sweeping
  \/ Configuring
  \/ HeapOperations
  \/ TimerOperations
  \/ TimerEndings
  \/ Timer_Reset_Unset
  \/ DomainOperations
  \/ PriorityOperations
  \/ DoWork
  \/ DoWork_Nested
  \/ UnregisteringInSteps
  \/ Tick

Spec == Init /\ [][Next]_vars

\* The queue is built without delayed fences.
InitWithoutDelayedFence == Init /\ ~main_thread_only.delayed_fence_allowed

\* The queue is built without delayed fences, and with a sequence manager.
InitWithManager ==
  InitWithoutDelayedFence /\ operations_controller = "accepting"

\* The queue is built with delayed fences, and with a sequence manager.
InitWithDelayedFence ==
  /\ Init
  /\ main_thread_only.delayed_fence_allowed
  /\ operations_controller = "accepting"

\* Immediate tasks posted from three threads to a queue that is fenced,
\* disabled, enabled and unregistered.
NextPosting ==
  \/ PostingImmediate
  \/ Fencing
  \/ Enabling
  \/ Unregistering
  \/ DoWork

SpecPosting == InitWithoutDelayedFence /\ [][NextPosting]_vars

\* Immediate tasks, posted from two threads, and delayed tasks, posted from the
\* main thread, on a queue that is fenced.
NextFences ==
  \/ PostingImmediateTwo
  \/ PostingDelayedMain
  \/ Fencing
  \/ DoWork
  \/ Tick

SpecFences == InitWithoutDelayedFence /\ [][NextFences]_vars

\* Immediate tasks, posted from two threads, and delayed tasks, posted from the
\* main thread, on a queue that is disabled and enabled.
NextEnabling ==
  \/ PostingImmediateTwo
  \/ PostingDelayedMain
  \/ Enabling
  \/ DoWork
  \/ Tick

SpecEnabling == InitWithoutDelayedFence /\ [][NextEnabling]_vars

\* Immediate and delayed tasks posted from every thread, cancelled, swept and
\* dropped when the queue is unregistered.
NextLifetime ==
  \/ PostingImmediate
  \/ PostingDelayedMain
  \/ PostingDelayedOther
  \/ Unregistering
  \/ Sweeping
  \/ DoWork
  \/ Tick

SpecLifetime == InitWithoutDelayedFence /\ [][NextLifetime]_vars

\* Immediate and delayed tasks, posted from the main thread, on a queue that
\* is fenced at once or at a time to come.
NextDelayedFences ==
  \/ PostImmediate_MainThread
  \/ PostDelayed_MainThread(1)
  \/ Fencing
  \/ FencingAt
  \/ DoWork
  \/ Tick

SpecDelayedFences == InitWithDelayedFence /\ [][NextDelayedFences]_vars

\* Immediate tasks, posted from two threads, on a queue that is fenced,
\* disabled and enabled, and whose observer is set and removed.
NextCrossThread ==
  \/ PostingImmediateTwo
  \/ Fencing
  \/ Enabling
  \/ SetObserver_Call
  \/ DoWork

SpecCrossThread == InitWithManager /\ [][NextCrossThread]_vars

\* Immediate tasks posted from the main thread and from one other thread and
\* delayed tasks posted from the main thread, on a queue that is fenced,
\* disabled and enabled, and whose observer and on-task-posted handler are set
\* and removed.
NextCallbacks ==
  \/ PostingImmediateTwo
  \/ PostDelayed_MainThread(1)
  \/ Fencing
  \/ Enabling
  \/ SetObserver_Call
  \/ SetOnTaskPostedHandler_Call
  \/ DoWork

SpecCallbacks == InitWithManager /\ [][NextCallbacks]_vars

\* Immediate tasks posted from the main thread and from two other threads, on
\* a queue that is fenced, disabled and enabled.
NextRaces ==
  \/ PostingImmediate
  \/ Fencing
  \/ Enabling
  \/ DoWork

SpecRaces == InitWithManager /\ [][NextRaces]_vars

\* Immediate tasks posted from the main thread and from two other threads, on
\* a queue that is fenced and whose tasks are taken, deferred and requeued.
NextReloads ==
  \/ PostingImmediate
  \/ Fencing
  \/ Reloading

SpecReloads == InitWithManager /\ [][NextReloads]_vars

\* Delayed tasks, posted from the main thread, and immediate tasks on a queue
\* that changes its time domain and its observer, is disabled and enabled,
\* swept and unregistered.
NextWakeUps ==
  \/ PostImmediate_MainThread
  \/ PostingDelayedMain
  \/ Enabling
  \/ Sweeping
  \/ Configuring
  \/ UnregisterTaskQueue_Shutdown
  \/ UnregisterTaskQueue_Finish
  \/ DoWork
  \/ Tick

SpecWakeUps == InitWithoutDelayedFence /\ [][NextWakeUps]_vars

\* A DelayedIncomingQueue that is pushed to, popped, swapped and swept.
NextHeap == HeapOperations

SpecHeap == InitWithoutDelayedFence /\ [][NextHeap]_vars

\* A timer that is started, reset, stopped and fired, on a task runner that
\* runs the scheduled task on time or late, or destroys it.
NextTimer == TimerOperations

\* The timer is constructed beside such a queue.
InitTimer == InitWithManager

SpecTimer == InitTimer /\ [][NextTimer]_vars

\* A timer as above, on a task runner that may also refuse a task, and which
\* may be destroyed.
NextTimerTasks == TimerOperations \/ TimerEndings

SpecTimerTasks == InitTimer /\ [][NextTimerTasks]_vars

\* A timer on which Start, Reset, Stop and FireNow are called in any order,
\* Reset also while the timer has no user task.
NextTimerCalls == TimerOperations \/ Timer_Reset_Unset

SpecTimerCalls == InitTimer /\ [][NextTimerCalls]_vars

\* Immediate and delayed tasks posted from the main thread and another
\* thread, run by DoWork, or deferred inside a nested run loop and requeued.
NextOrders ==
  \/ PostingImmediateTwo
  \/ PostingDelayedMain
  \/ PostingDelayedOther
  \/ DoWork
  \/ DoWork_Nested
  \/ RequeueDeferredNonNestableTask_Call
  \/ Tick

SpecOrders == InitWithManager /\ [][NextOrders]_vars

\* Immediate and delayed tasks posted to a queue that is unregistered, the
\* parts of UnregisterTaskQueue being steps.
NextUnregister ==
  \/ PostingImmediate
  \/ PostingDelayedMain
  \/ UnregisteringInSteps
  \/ DoWork
  \/ Tick

SpecUnregister == InitWithManager /\ [][NextUnregister]_vars

\* Immediate tasks posted from two other threads and the main thread and
\* delayed tasks posted from another thread, run by DoWork as the clock
\* advances.
NextThreads ==
  \/ PostingImmediate
  \/ PostingDelayedOther
  \/ DoWork
  \/ Tick

SpecThreads == InitWithManager /\ [][NextThreads]_vars

\* Delayed tasks, some of high resolution, posted to the queues of one time
\* domain, which are disabled, enabled, lowered, raised and unregistered while
\* the clock advances and the ready tasks are moved.
NextDomain == DomainOperations

\* The timer plays no part in it.
InitDomain == InitWithManager /\ timer = TimerBase("OneShotTimer")

SpecDomain == InitDomain /\ [][NextDomain]_vars

\* One queue whose priority is set, with fences and enabling, posts from the
\* main thread and DoWork.
NextPriorities ==
  \/ PostImmediate_MainThread
  \/ PriorityOperations
  \/ DoWork

SpecPriorities == InitDomain /\ [][NextPriorities]_vars

\* ------------------------------------------------------------------ claims
\* C1: immediate tasks posted from any number of threads are executed in the
\* order in which their posts acquired any_thread_lock_ (the history number
\* id of a task is its place in that order).  Checked where every task is
\* immediate (SpecPosting).
C1_LockOrder ==
  \A i, j \in 1..Len(executed) :
    i < j => executed[i].id < executed[j].id

\* Two tasks posted by two threads, each still inside its post, have both run.
C1_Witness ==
  /\ Len(executed) = 2
  /\ th["t1"].pc = "tail"
  /\ th["t2"].pc = "tail"

\* How often the post id occurs in a queue, and in the four containers.
Occurrences(queue, id) == Cardinality({i \in 1..Len(queue) : queue[i].id = id})

InContainers(id) ==
  Occurrences(any_thread.immediate_incoming_queue, id)
  + Occurrences(main_thread_only.immediate_work_queue.tasks, id)
  + Occurrences(main_thread_only.delayed_work_queue.tasks, id)
  + Cardinality({t \in main_thread_only.delayed_incoming_queue : t.id = id})

\* The loop ran to idle on a queue no task of which was cancelled or dropped:
\* as many tasks ran as were posted.
RunToIdle ==
  (/\ \A id \in 1..nposted : InContainers(id) = 0
   /\ dropped = {}
   /\ discarded = {})
  => Len(executed) = nposted

\* C2, as claimed: every accepted post is in exactly one of the four
\* containers, or was executed exactly once, or was dropped by
\* UnregisterTaskQueue; and a loop run to idle has executed every post.
C2_Original ==
  /\ \A id \in 1..nposted :
       InContainers(id) + Occurrences(executed, id)
         + (IF id \in dropped THEN 1 ELSE 0) = 1
  /\ RunToIdle

\* C2, amended: every accepted post is in exactly one of the four containers,
\* or was executed exactly once, or was dropped by UnregisterTaskQueue, or was
\* cancelled and then removed from the delayed incoming queue without being
\* run (by MoveReadyDelayedTasksToWorkQueue or by ReclaimMemory); and a loop
\* run to idle has executed every post that was neither cancelled nor dropped.
C2_Accounted ==
  /\ \A id \in 1..nposted :
       InContainers(id) + Occurrences(executed, id)
         + (IF id \in dropped THEN 1 ELSE 0)
         + (IF id \in discarded THEN 1 ELSE 0) = 1
  /\ RunToIdle

\* One post was executed and another, cancelled, was removed without running.
C2_Witness ==
  /\ Len(executed) = 1
  /\ discarded # {}

\* C3: a task posted with delay d when the clock read t0 (due = t0 + d in
\* the task's history) is in the delayed work queue only when the clock has
\* reached t0 + d, and was run only then.
C3_NotBeforeDue ==
  /\ \A i \in 1..Len(main_thread_only.delayed_work_queue.tasks) :
       main_thread_only.delayed_work_queue.tasks[i].due <= now
  /\ \A i \in 1..Len(executed) : executed[i].due <= executed[i].at

\* A delayed task posted from the main thread and one posted from another
\* thread have run, the second of them at the time it was due.
C3_Witness ==
  /\ Len(executed) = 2
  /\ executed[1].drt # 0
  /\ executed[2].drt # 0
  /\ executed[2].at = executed[2].due
  /\ th["t1"].pc = "tail"

\* The tasks that hold an enqueue order, in the state.
Ordered == OrderedTasks(World)

\* C4: while the fence that InsertFence(kNow) installed is the current fence
\* (fence_mark >= 0: the posts with a greater history number were placed after
\* InsertFence took the fence's number), every such post that has an enqueue
\* order has one greater than the fence, CouldTaskRun is false for it, and
\* none of them has run.
C4_PostedAfterFence ==
  fence_mark >= 0 =>
    /\ \A i \in 1..Len(Ordered) :
         Ordered[i].id > fence_mark =>
           /\ Ordered[i].eo > main_thread_only.current_fence
           /\ ~CouldTaskRun(World, Ordered[i].eo)
    /\ \A i \in 1..Len(executed) : executed[i].id <= fence_mark

\* Behind a kNow fence wait an immediate task in the immediate work queue and
\* a delayed task in the delayed work queue, both posted after the fence.
C4_Witness ==
  /\ fence_mark = 0
  /\ Len(main_thread_only.immediate_work_queue.tasks) = 1
  /\ Len(main_thread_only.delayed_work_queue.tasks) = 1
  /\ mpc.op = "idle"

\* C5, as claimed: while the fence that InsertFence(kNow) installed is the
\* current fence, every task posted before the call, immediate or delayed, is
\* not blocked by it: its enqueue order is below the fence and CouldTaskRun
\* is true for it.
C5_Original ==
  fence_mark >= 0 =>
    \A i \in 1..Len(Ordered) :
      Ordered[i].id <= fence_mark =>
        /\ Ordered[i].eo < main_thread_only.current_fence
        /\ CouldTaskRun(World, Ordered[i].eo)

\* C5, amended: while the fence that InsertFence(kNow) installed is the
\* current fence, every immediate task posted before the call is not blocked
\* by it.  (A delayed task posted before the call gets its enqueue order when
\* it is moved to the delayed work queue; moved after the call, it is
\* blocked.)
C5_ImmediateBeforeFence ==
  fence_mark >= 0 =>
    \A i \in 1..Len(Ordered) :
      (Ordered[i].id <= fence_mark /\ Ordered[i].drt = 0) =>
        /\ Ordered[i].eo < main_thread_only.current_fence
        /\ CouldTaskRun(World, Ordered[i].eo)

\* An immediate and a delayed task were posted, then InsertFence(kNow) was
\* called.  The DoWork that moved the delayed task behind the fence ran the
\* immediate task.
C5_Witness ==
  /\ fence_mark = 2
  /\ Len(executed) = 1
  /\ executed[1].drt = 0
  /\ executed[1].at = 2
  /\ \E i \in 1..Len(main_thread_only.delayed_work_queue.tasks) :
       /\ main_thread_only.delayed_work_queue.tasks[i].due = 2
       /\ main_thread_only.delayed_work_queue.tasks[i].eo
            > main_thread_only.current_fence

\* C6: while the kBeginningOfTime fence is the current fence CouldTaskRun is
\* false for every task that has an enqueue order and no work queue is ready
\* for the selector; and the tasks that ran, ran in the order of their
\* enqueue orders (a fence, installed and removed, reorders nothing).
C6_BlockingFence ==
  /\ main_thread_only.current_fence = blocking_fence =>
       /\ \A i \in 1..Len(Ordered) : ~CouldTaskRun(World, Ordered[i].eo)
       /\ ReadyWorkQueues(World) = {}
  /\ \A i, j \in 1..Len(executed) :
       i < j => executed[i].eo < executed[j].eo

\* RemoveFence is removing a kBeginningOfTime fence that held back a task in
\* each work queue, and nothing has run.
C6_Witness ==
  /\ mpc.op = "RemoveFence"
  /\ mpc.previous_fence = blocking_fence
  /\ main_thread_only.immediate_work_queue.tasks # <<>>
  /\ main_thread_only.delayed_work_queue.tasks # <<>>
  /\ executed = <<>>

\* C7, as claimed: while the queue is blocked by a kBeginningOfTime fence,
\* HasTaskToRunImmediately returns false, whatever is pending.
C7_Original ==
  (main_thread_only.current_fence = blocking_fence /\ BlockedByFence(World))
    => ~HasTaskToRunImmediately(World, now)

\* C7, amended: HasTaskToRunImmediately does not look at the fence.  While
\* the queue is blocked by a kBeginningOfTime fence it returns true when a
\* task is pending in a work queue or in the immediate incoming queue, and
\* otherwise tells whether the first delayed task is due.
C7_IgnoresFence ==
  (main_thread_only.current_fence = blocking_fence /\ BlockedByFence(World))
    => /\ HasPendingImmediateWork(World) => HasTaskToRunImmediately(World, now)
       /\ ~HasPendingImmediateWork(World) =>
            (HasTaskToRunImmediately(World, now) <=>
               \E t \in main_thread_only.delayed_incoming_queue : t.drt <= now)

\* A queue blocked by the kBeginningOfTime fence holds a task in its immediate
\* work queue, and HasTaskToRunImmediately returns true.
C7_Witness ==
  /\ main_thread_only.current_fence = blocking_fence
  /\ BlockedByFence(World)
  /\ main_thread_only.immediate_work_queue.tasks # <<>>
  /\ mpc.op = "idle"
  /\ HasTaskToRunImmediately(World, now)

\* RemoveFence, from the state after its first part, calls ScheduleWork before
\* it returns.
RemoveFenceCallsScheduleWork ==
  LET l == RemoveFence_Locked([World EXCEPT !.wp = FALSE], mpc.previous_fence,
                              mpc.front_task_unblocked)
  IN Fence_Tail(l.w, l.front_task_unblocked).wp

\* C8, as claimed: RemoveFence, called on an enabled queue while some task in
\* a work queue or in the immediate incoming queue was blocked by the fence,
\* leaves the tasks runnable and calls ScheduleWork.
C8_Original ==
  (mpc.op = "RemoveFence" /\ main_thread_only.is_enabled /\ mpc.any_blocked)
    => /\ \A i \in 1..Len(Ordered) : CouldTaskRun(World, Ordered[i].eo)
       /\ RemoveFenceCallsScheduleWork

\* C8, amended: RemoveFence, called on an enabled queue while the front task
\* of the immediate work queue, of the delayed work queue or of the immediate
\* incoming queue was blocked by the fence, leaves the tasks runnable and
\* calls ScheduleWork.  (With only tasks behind an unblocked front task
\* blocked, it does not.)
C8_FrontTaskBlocked ==
  (mpc.op = "RemoveFence" /\ main_thread_only.is_enabled /\ mpc.front_blocked)
    => /\ \A i \in 1..Len(Ordered) : CouldTaskRun(World, Ordered[i].eo)
       /\ RemoveFenceCallsScheduleWork

\* RemoveFence is past its first part; the fence blocked the front task of
\* the immediate incoming queue, the work queues are empty and no DoWork is
\* pending.
C8_Witness ==
  /\ mpc.op = "RemoveFence"
  /\ mpc.front_blocked
  /\ ~mpc.front_task_unblocked
  /\ ~work_pending
  /\ RemoveFenceCallsScheduleWork

\* SetQueueEnabled(true), from the state after its first part to its return;
\* work_pending is cleared first, so that it tells whether ScheduleWork was
\* called.
AfterSetQueueEnabled ==
  LET l == SetQueueEnabled_Locked([World EXCEPT !.wp = FALSE])
  IN SetQueueEnabled_Tail(l.w, TRUE, l.has_pending_immediate_work, now)

PlacedIn(a, m, id) ==
  Occurrences(a.immediate_incoming_queue, id)
    + Cardinality({t \in m.delayed_incoming_queue : t.id = id}) = 1

\* C10: a post returns true iff it placed its task: a post that returns false
\* leaves the queue, the reload flag, the wake-ups, the sequence numbers and
\* work_pending as they were (nothing is placed, run or scheduled), and a
\* post that goes on to return true has placed exactly one task, in the
\* immediate incoming queue or, for a delayed post of the main thread, in the
\* delayed incoming queue.
C10_ReturnValue ==
  [][/\ \A t \in Threads :
          (th[t].pc # "returned_false" /\ th'[t].pc = "returned_false") =>
            UNCHANGED <<any_thread, main_thread_only, reload_flag,
                        delayed_wake_up_queue, work_pending,
                        next_sequence_number, nposted, executed>>
     /\ \A t \in Threads :
          (th[t].pc # "tail" /\ th'[t].pc = "tail") => nposted' = nposted + 1
     /\ nposted' # nposted =>
          /\ nposted' = nposted + 1
          /\ PlacedIn(any_thread', main_thread_only', nposted')
    ]_vars

\* UnregisterTaskQueue waits for the post of one thread, which was accepted,
\* while the post of another thread has returned false.
C10_Witness ==
  /\ mpc.op = "UnregisterTaskQueue"
  /\ th["t1"].pc = "returned_false"
  /\ th["t2"].pc = "tail"

\* C11: posts are accepted only while the gate is open, that is from the
\* construction of a queue with a sequence manager to the start of
\* UnregisterTaskQueue.  A post begins PostImmediateTaskImpl or
\* PostDelayedTaskImpl only then; a post begun at any other time (no manager,
\* or shutdown started) returns false; UnregisterTaskQueue sets unregistered
\* and clears any_thread_.time_domain only when no post is in progress; so
\* every step of a post, and every placing of a task, happens on a queue that
\* is registered and has its time domain.
C11_AcceptedWindow ==
  [][/\ \A t \in Threads :
          (~InPost(t) /\ th'[t].pc \in {"prepped", "tail"}) =>
            /\ operations_controller = "accepting"
            /\ ~any_thread.unregistered
     /\ \A t \in Threads :
          (operations_controller # "accepting" /\ th[t].pc = "idle"
           /\ th'[t] # th[t]) => th'[t].pc = "returned_false"
     /\ \A t \in Threads :
          InPost(t) =>
            /\ ~any_thread.unregistered /\ any_thread.time_domain # nullptr
            /\ ~any_thread'.unregistered
            /\ any_thread'.time_domain # nullptr
     /\ nposted' # nposted =>
          ~any_thread.unregistered /\ any_thread.time_domain # nullptr
    ]_vars

\* UnregisterTaskQueue waits for a delayed post of one thread, which has not
\* yet posted its helper task, while the post of another thread was refused.
C11_Witness ==
  /\ mpc.op = "UnregisterTaskQueue"
  /\ operations_controller = "shutdown"
  /\ th["t1"].pc = "prepped"
  /\ th["t2"].pc = "returned_false"
  /\ ~any_thread.unregistered

\* The wake-ups the queue has in the heap of a time domain.
EntriesIn(time_domain) == delayed_wake_up_queue[time_domain]

\* C12: outside the main thread's operations, a registered queue has an entry
\* in the heap of its time domain iff it is enabled and its delayed incoming
\* queue is not empty; the entry is the queue's scheduled_wake_up; no heap
\* holds more than one entry of the queue, and the heap of a time domain the
\* queue is not in (it left it, or was unregistered) holds none.
C12_HeapEntry ==
  mpc.op = "idle" =>
    /\ \A time_domain \in TimeDomains :
         /\ Cardinality(EntriesIn(time_domain)) <= 1
         /\ time_domain # main_thread_only.time_domain =>
              EntriesIn(time_domain) = {}
    /\ main_thread_only.time_domain # nullptr =>
         /\ EntriesIn(main_thread_only.time_domain) # {} <=>
              (/\ main_thread_only.is_enabled
               /\ main_thread_only.delayed_incoming_queue # {})
         /\ EntriesIn(main_thread_only.time_domain) =
              IF main_thread_only.scheduled_wake_up = NoWakeUp THEN {}
              ELSE {main_thread_only.scheduled_wake_up}

\* The queue, with two delayed tasks, has moved to the second time domain and
\* has its wake-up there.
C12_Witness ==
  /\ mpc.op = "idle"
  /\ main_thread_only.time_domain = "d2"
  /\ Cardinality(main_thread_only.delayed_incoming_queue) = 2
  /\ EntriesIn("d2") # {}
  /\ EntriesIn("d1") = {}

C14_Sweep ==
  [][heap_op' = "ReclaimMemory" =>
       LET before == heap_queue["this"].c
           after == heap_queue'["this"].c
       IN /\ \A i \in 1..Len(after) : ~after[i].cancelled
          /\ RangeOf(after) = {t \in RangeOf(before) : ~t.cancelled}
          /\ Len(after) = Cardinality(RangeOf(after))
          /\ IsHeap(after)
          /\ \A i \in 1..Len(after) :
               after[1] = after[i] \/ RunsBefore(after[1], after[i])
          /\ (\A i \in 1..Len(before) : ~before[i].cancelled) =>
               after = before
    ]_vars

\* ReclaimMemory has swept a queue of three tasks, of which it left the two
\* pushed last, the later of them with the earlier run time.
C14_Witness ==
  /\ heap_op = "ReclaimMemory"
  /\ heap_pushed = 3
  /\ Len(heap_queue["this"].c) = 2
  /\ heap_queue["rhs"].c = <<>>
  /\ heap_queue["this"].c[1].seq = 3
  /\ heap_queue["this"].c[2].seq = 2

\* The tasks of c whose is_high_res is set.
HighResolutionTasks(c) == Cardinality({i \in 1..Len(c) : c[i].is_high_res})

\* C15: the pending_high_res_tasks_ of a DelayedIncomingQueue is the number
\* of its tasks whose is_high_res is set, and is not negative, whatever
\* pushes, pops, swaps and sweeps were made.
C15_HighResCount ==
  \A q \in {"this", "rhs"} :
    /\ heap_queue[q].pending_high_res_tasks
         = HighResolutionTasks(heap_queue[q].c)
    /\ heap_queue[q].pending_high_res_tasks >= 0

\* A sweep has removed a high resolution task and left one; another is in the
\* queue that was swapped away.
C15_Witness ==
  /\ heap_op = "ReclaimMemory"
  /\ heap_pushed = 3
  /\ heap_queue["this"].pending_high_res_tasks = 1
  /\ Len(heap_queue["this"].c) = 1
  /\ heap_queue["rhs"].pending_high_res_tasks = 1

\* The time of the queue's scheduled wake-up, 0 (TimeTicks()) when it has
\* none.
ScheduledWakeUpTime(w) ==
  IF w.m.scheduled_wake_up = NoWakeUp THEN 0 ELSE w.m.scheduled_wake_up.time

\* The main thread operations that update the delayed wake-up, as they can be
\* called in this state: the world each starts from and the world it leaves,
\* with the observer calls it made.
WakeUpUpdates ==
  IF ~MainFree THEN {}
  ELSE
    {[before |-> World,
      after |-> PostDelayedTaskImpl_MainThread(World, nposted + 1, delay, now)] :
       delay \in IF operations_controller = "accepting" /\ MayPost
                   THEN Delays ELSE {}}
    \cup {[before |-> World, after |-> ReclaimMemory(World, now)]}
    \cup {[before |-> World,
           after |-> SetQueueEnabled_Pre(World, ~main_thread_only.is_enabled,
                                         now)]}
    \cup {[before |-> World, after |-> SetTimeDomain(World, time_domain, now)] :
            time_domain \in TimeDomains \ {main_thread_only.time_domain}}
    \cup LET w1 == [ReloadEmptyWorkQueues(World) EXCEPT !.obs = {}]
             ready == {time_domain \in {w1.m.time_domain} :
                         /\ w1.heap[time_domain] # {}
                         /\ HeapMinTime(w1.heap[time_domain]) <= now}
         IN {[before |-> w1,
              after |-> MoveReadyDelayedTasksToWorkQueue(w1, now)] :
               time_domain \in ready}

\* C16, as claimed: whenever an observer is set and an operation changes the
\* time of the queue's scheduled wake-up, to an earlier time, to a later time
\* or to none, the operation calls OnQueueNextWakeUpChanged with the new time,
\* TimeTicks() for none.
C16_Original ==
  main_thread_only.task_queue_observer =>
    \A u \in WakeUpUpdates :
      ScheduledWakeUpTime(u.after) # ScheduledWakeUpTime(u.before)
        => ScheduledWakeUpTime(u.after) \in u.after.obs

\* C16, amended: when an observer is set and an operation changes the time of
\* the queue's scheduled wake-up, the operation calls OnQueueNextWakeUpChanged
\* with the new time, and with nothing else, if the new wake-up is a time and
\* the queue has no immediate work pending; it does not call the observer if
\* the wake-up changed to none or immediate work is pending.
C16_WakeUpChanged ==
  main_thread_only.task_queue_observer =>
    \A u \in WakeUpUpdates :
      ScheduledWakeUpTime(u.after) # ScheduledWakeUpTime(u.before)
        => u.after.obs =
             IF /\ u.after.m.scheduled_wake_up # NoWakeUp
                /\ ~HasPendingImmediateWork(u.after)
               THEN {ScheduledWakeUpTime(u.after)}
               ELSE {}

\* An observer is set; one operation callable now moves the wake-up to a time
\* and tells the observer, another leaves the queue without a wake-up and
\* does not.
C16_Witness ==
  /\ main_thread_only.task_queue_observer
  /\ \E u \in WakeUpUpdates :
       /\ ScheduledWakeUpTime(u.after) # ScheduledWakeUpTime(u.before)
       /\ ScheduledWakeUpTime(u.after) # 0
       /\ u.after.obs = {ScheduledWakeUpTime(u.after)}
  /\ \E u \in WakeUpUpdates :
       /\ ScheduledWakeUpTime(u.before) # 0
       /\ ScheduledWakeUpTime(u.after) = 0
       /\ u.after.obs = {}

\* The step in which the scheduled task runs and invokes the user task.
ScheduledTaskRunsUserTask ==
  /\ Timer_RunScheduledTask
  /\ OnScheduledTaskInvoked(TimerWorld, tick_clock).invoked # <<>>

\* The invocation of the user task which the scheduled task, run now, makes:
\* the task, the time, IsRunning() and the task scheduled at the invocation.
ScheduledTaskInvocation ==
  OnScheduledTaskInvoked(TimerWorld, tick_clock).invoked[1]

\* C17: the user task of a OneShotTimer is invoked at most once after a call
\* of Start (or Reset); the task is the one passed to Start; unless FireNow
\* invoked it, the time is not before the time of the call plus the delay;
\* and IsRunning() is false at the invocation and after it.
C17_OneShot ==
  [][timer.kind = "OneShotTimer" =>
       /\ armed'.runs <= 1
       /\ ScheduledTaskRunsUserTask =>
            /\ armed.runs = 0
            /\ ScheduledTaskInvocation.task = armed.task
            /\ ~ScheduledTaskInvocation.is_running
            /\ tick_clock >= armed.time + armed.delay
            /\ ~timer'.is_running
       /\ Timer_FireNow =>
            /\ armed.runs = 0
            /\ FireNow(TimerWorld, tick_clock).invoked[1].task = armed.task
            /\ ~FireNow(TimerWorld, tick_clock).invoked[1].is_running
            /\ ~timer'.is_running
    ]_vars

\* A OneShotTimer started with a delay of 2 invoked its user task, not by
\* FireNow, at the time of Start plus 2, and is stopped.
C17_Witness ==
  /\ timer.kind = "OneShotTimer"
  /\ armed.by = "Start"
  /\ armed.delay = 2
  /\ armed.runs = 1
  /\ ~last_run.fire_now
  /\ last_run.time = armed.time + 2
  /\ ~timer.is_running

\* C18: a Reset called while a task is scheduled and the time plus the delay
\* is not before scheduled_run_time_ posts no task and leaves the scheduled
\* one; the scheduled task of a running timer, run before desired_run_time_,
\* does not invoke the user task and posts one task, for desired_run_time_;
\* and the user task is not invoked, unless by FireNow, before the time of
\* the last Reset (or Start) plus the delay.
C18_ResetExtends ==
  [][/\ (Timer_Reset /\ timer.task_destruction_detector
                     /\ tick_clock + timer.delay >= timer.scheduled_run_time)
          => /\ Reset(TimerWorld, tick_clock).posted = 0
             /\ task_runner' = task_runner
             /\ timer'.is_running
     /\ (Timer_RunScheduledTask /\ timer.is_running
                                /\ tick_clock < timer.desired_run_time)
          => /\ last_run' = last_run
             /\ armed'.runs = armed.runs
             /\ OnScheduledTaskInvoked(TimerWorld, tick_clock).posted = 1
             /\ task_runner'.due = timer.desired_run_time
             /\ timer'.is_running
     /\ ScheduledTaskRunsUserTask
          => /\ last_run'.time = tick_clock
             /\ tick_clock >= armed.time + armed.delay
    ]_vars

\* A OneShotTimer was reset while its task was scheduled; the Reset posted no
\* task, the scheduled task posted one when it ran, and that one invoked the
\* user task at the time of the Reset plus the delay.
C18_Witness ==
  /\ timer.kind = "OneShotTimer"
  /\ armed.by = "Reset"
  /\ armed.posts = 1
  /\ armed.runs = 1
  /\ ~last_run.fire_now
  /\ last_run.time = armed.time + armed.delay

C20_Retaining ==
  [][timer.kind = "RetainingOneShotTimer" =>
       /\ armed'.by # "none" => timer'.user_task = armed'.task
       /\ armed'.runs <= 1
       /\ ScheduledTaskRunsUserTask =>
            ScheduledTaskInvocation.task = armed.task
       /\ Timer_Reset => /\ timer'.is_running
                         /\ timer'.task_destruction_detector
                         /\ task_runner'.due # 0
    ]_vars

\* A RetainingOneShotTimer invoked its user task, was reset, and invoked the
\* same user task again; it is stopped and still has the user task.
C20_Witness ==
  /\ timer.kind = "RetainingOneShotTimer"
  /\ armed.by = "Reset"
  /\ armed.runs = 1
  /\ last_run.previous # 0
  /\ timer.user_task = armed.task
  /\ ~timer.is_running

\* The step in which a scheduled task the timer has not abandoned is
\* destroyed without having run: the task runner destroys it, or does not
\* accept it when Start posts it, or does not accept the task which the run of
\* the scheduled task posts.
ScheduledTaskDestroyed ==
  \/ Timer_TaskDestroyed
  \/ /\ Timer_Start_Rejected
     /\ armed'.posts > 0
  \/ /\ Timer_RunScheduledTask_Rejecting
     /\ RunTask([ScheduledTaskTaken(TimerWorld) EXCEPT !.accepts = FALSE], TRUE,
                tick_clock).posted > 0

\* After the step the timer is not running and has no scheduled task.
StoppedWithoutTask ==
  /\ ~timer'.is_running
  /\ ~timer'.task_destruction_detector
  /\ task_runner'.due = 0

\* The scheduled task, when it runs, is not stopped by its detector: a timer
\* that was stopped is left as it is, and a running timer has its user task
\* invoked or the task that continues the delay scheduled.
RunDisablesDetector ==
  Timer_RunScheduledTask =>
    IF timer.is_running
      THEN \/ ScheduledTaskRunsUserTask
           \/ /\ timer'.is_running
              /\ timer'.task_destruction_detector
              /\ task_runner'.due # 0
      ELSE timer' = [timer EXCEPT !.task_destruction_detector = FALSE]

\* C21 as the specification states it: for every timer, after a scheduled
\* task that was not abandoned is destroyed without having run, the timer is
\* not running, has no scheduled task and has released its user task; a task
\* that runs is not stopped by its detector.
C21_Original ==
  [][/\ ScheduledTaskDestroyed =>
          /\ StoppedWithoutTask
          /\ timer'.user_task = NullCallback
     /\ RunDisablesDetector
    ]_vars

\* C21: after a scheduled task that was not abandoned is destroyed without
\* having run, the timer is not running and has no scheduled task; a
\* OneShotTimer has released its user task, a RepeatingTimer and a
\* RetainingOneShotTimer keep theirs.  A task that runs is not stopped by its
\* detector.
C21_TaskDestroyed ==
  [][/\ ScheduledTaskDestroyed =>
          /\ StoppedWithoutTask
          /\ timer'.user_task =
               IF timer.kind = "OneShotTimer" THEN NullCallback
               ELSE armed'.task
     /\ RunDisablesDetector
    ]_vars

\* A RepeatingTimer started with a delay of 2 whose scheduled task was
\* destroyed, or not accepted, before the delay passed: it is stopped, has no scheduled task
\* and keeps the user task.
C21_Witness ==
  /\ timer.kind = "RepeatingTimer"
  /\ ~timer.destructed
  /\ armed.by = "Start"
  /\ armed.delay = 2
  /\ armed.posts = 1
  /\ armed.runs = 0
  /\ tick_clock < armed.time + 2
  /\ ~timer.is_running
  /\ ~timer.task_destruction_detector
  /\ task_runner = NoTask
  /\ timer.user_task = armed.task
  /\ timer.user_task # NullCallback

\* The step in which the task runner runs or destroys a task the timer has
\* abandoned.
AbandonedTaskEnds ==
  \/ Timer_AbandonedTaskRuns
  \/ Timer_AbandonedTaskDestroyed

\* The step in which Start or Reset finds a task scheduled for later than the
\* run time it asks for, and abandons it.
ResetAbandons ==
  /\ Timer_Start \/ Timer_Reset
  /\ timer.task_destruction_detector
  /\ (IF armed'.delay > 0 THEN tick_clock + armed'.delay ELSE 0)
       < timer.scheduled_run_time

\* The tasks in the task runner which the timer has abandoned have an invalid
\* weak pointer and a disabled detector.
AbandonedTasksInert ==
  \A task \in task_runner.abandoned : ~task.valid /\ ~task.detector

\* C22: a task the timer has abandoned, when it is run or destroyed, invokes
\* no user task and leaves the timer, its scheduled task and its history as
\* they are; a Start or Reset that abandons the scheduled task posts exactly
\* one task, which becomes the scheduled task, and the abandoned one stays in
\* the task runner with its weak pointer invalid and its detector disabled.
C22_Abandoned ==
  [][/\ AbandonedTasksInert
     /\ AbandonedTaskEnds =>
          /\ timer' = timer
          /\ task_runner'.due = task_runner.due
          /\ armed' = [armed EXCEPT !.abandoned_ended = TRUE]
          /\ last_run' = last_run
     /\ ResetAbandons =>
          /\ armed'.posts = 1
          /\ armed'.runs = 0
          /\ timer'.task_destruction_detector
          /\ task_runner'.due = tick_clock + armed'.delay
          /\ task_runner'.abandoned # {}
    ]_vars

\* A timer started with a delay of 2 and started again at once with a delay
\* of 1, whose first task has left the task runner and whose second task is
\* scheduled: the timer is as the second Start left it.
C22_Witness ==
  /\ armed.by = "Start"
  /\ armed.delay = 1
  /\ armed.posts = 1
  /\ armed.runs = 0
  /\ armed.abandoned_ended
  /\ tick_clock = armed.time + 2
  /\ timer.is_running
  /\ timer.task_destruction_detector
  /\ timer.scheduled_run_time = armed.time + 1
  /\ task_runner = [due |-> armed.time + 1, abandoned |-> {}]
  /\ last_run = NoRun

\* C23: a queue never has a fence and a delayed fence together; so, when a
\* reload finds an incoming task at or after the delayed fence, there is no
\* fence (the DCHECK of TakeImmediateIncomingQueueTasks holds).
C23_OneFence ==
  /\ ~(main_thread_only.current_fence # none
       /\ main_thread_only.delayed_fence # 0)
  /\ (/\ main_thread_only.delayed_fence # 0
      /\ FirstAtOrAfter(any_thread.immediate_incoming_queue,
                        main_thread_only.delayed_fence) # 0)
       => main_thread_only.current_fence = none

\* A reload has turned the delayed fence into a fence, at the enqueue order
\* of an immediate task it took.
C23_Witness ==
  /\ fence_deadline # 0
  /\ main_thread_only.delayed_fence = 0
  /\ main_thread_only.current_fence # none
  /\ \E i \in 1..Len(main_thread_only.immediate_work_queue.tasks) :
       /\ main_thread_only.immediate_work_queue.tasks[i].eo =
            main_thread_only.current_fence
       /\ main_thread_only.immediate_work_queue.tasks[i].qt >= fence_deadline

\* The time a delayed fence compares a task with: delayed_run_time of a
\* delayed task, queue_time of an immediate task.
TimeOf(task) == IF task.drt # 0 THEN task.drt ELSE task.qt

\* The task is held back by the fence.
BlockedTask(task) ==
  /\ main_thread_only.current_fence # none
  /\ task.eo >= main_thread_only.current_fence

\* The tasks in the work queues, and those in all three queues.
SeqToSet(queue) == {queue[i] : i \in 1..Len(queue)}
WorkQueueTasks ==
  SeqToSet(main_thread_only.immediate_work_queue.tasks)
    \cup SeqToSet(main_thread_only.delayed_work_queue.tasks)
QueuedTasks ==
  WorkQueueTasks \cup SeqToSet(any_thread.immediate_incoming_queue)

\* C24 as the specification states it: since InsertFenceAt(t), and until a
\* fence is inserted or removed by a call, every queued task whose time is
\* before t is not held back, every task in a work queue whose time is at or
\* after t is held back, and a queue that has a fence has no delayed fence.
C24_Original ==
  fence_deadline # 0 =>
    /\ \A task \in QueuedTasks :
         TimeOf(task) < fence_deadline => ~BlockedTask(task)
    /\ \A task \in WorkQueueTasks :
         TimeOf(task) >= fence_deadline => BlockedTask(task)
    /\ main_thread_only.current_fence # none
         => main_thread_only.delayed_fence = 0

\* C24: since InsertFenceAt(t), with t ahead of the clock, and until a fence
\* is inserted or removed by a call: no immediate task with a queue time
\* before t is held back; every delayed task in the delayed work queue with a
\* run time at or after t is held back; a delayed task with a run time before
\* t is held back only behind an immediate task, queued at or after t, at
\* which a reload put the fence; with no delayed task posted, every immediate
\* task in the work queue queued at or after t is held back; and a queue that
\* has a fence has no delayed fence.
C24_DelayedFence ==
  fence_deadline # 0 =>
    /\ \A task \in QueuedTasks :
         (task.drt = 0 /\ task.qt < fence_deadline) => ~BlockedTask(task)
    /\ \A task \in SeqToSet(main_thread_only.delayed_work_queue.tasks) :
         /\ task.drt >= fence_deadline => BlockedTask(task)
         /\ (task.drt < fence_deadline /\ BlockedTask(task)) =>
              \E first \in SeqToSet(main_thread_only.immediate_work_queue.tasks) :
                /\ first.qt >= fence_deadline
                /\ first.eo = main_thread_only.current_fence
    /\ (/\ main_thread_only.delayed_incoming_queue = {}
        /\ main_thread_only.delayed_work_queue.tasks = <<>>
        /\ \A i \in 1..Len(executed) : executed[i].drt = 0)
         => \A task \in SeqToSet(main_thread_only.immediate_work_queue.tasks) :
              task.qt >= fence_deadline => BlockedTask(task)
    /\ main_thread_only.current_fence # none
         => main_thread_only.delayed_fence = 0

\* Since InsertFenceAt(t) an immediate task posted before t ran at or after
\* t, while a delayed task with a run time at or after t is held back in the
\* delayed work queue.
C24_Witness ==
  /\ fence_deadline # 0
  /\ \E i \in 1..Len(executed) :
       /\ executed[i].drt = 0
       /\ executed[i].due < fence_deadline
       /\ executed[i].at >= fence_deadline
  /\ \E task \in SeqToSet(main_thread_only.delayed_work_queue.tasks) :
       task.drt >= fence_deadline /\ BlockedTask(task)

\* The tasks BlockedByFence is about: those in the two work queues and the
\* front task of the immediate incoming queue.
FenceCandidates ==
  WorkQueueTasks \cup
    (IF any_thread.immediate_incoming_queue = <<>> THEN {}
     ELSE {Head(any_thread.immediate_incoming_queue)})

\* C25: with a fence, BlockedByFence() is true exactly when neither work
\* queue holds, and the front of the immediate incoming queue is not, a task
\* with an enqueue order below current_fence; without a fence it is false.
C25_BlockedByFence ==
  BlockedByFence(World) =
    (/\ main_thread_only.current_fence # none
     /\ \A task \in FenceCandidates :
          ~(task.eo < main_thread_only.current_fence))

\* A fenced queue whose only tasks are in the immediate incoming queue, above
\* the fence: BlockedByFence() is true.
C25_Witness ==
  /\ mpc.op = "idle"
  /\ main_thread_only.current_fence # none
  /\ WorkQueueTasks = {}
  /\ any_thread.immediate_incoming_queue # <<>>
  /\ BlockedByFence(World)

\* What UpdateCrossThreadQueueStateLocked would make of the flag now: the
\* queue is enabled and has an observer or no fence.
ShouldScheduleWorkNow ==
  /\ main_thread_only.is_enabled
  /\ main_thread_only.task_queue_observer
       \/ main_thread_only.current_fence = none

LockedScheduleWork == {c \in unsafe_calls : c.call = "ScheduleWork"}

\* What an immediate post from thread t would do in this state.
ImmediatePost(t) ==
  PostImmediateTaskImpl_Locked(WorldOf(t), nposted + 1, now, 0, 0, now)

\* C27: ScheduleWork is never called while the calling thread holds
\* any_thread_lock_: not by an immediate post (which decides under the lock and
\* calls after it), nor by InsertFence, RemoveFence, SetQueueEnabled or a
\* wake-up update that ends in TimeDomain::RequestDoWork.
C27_ScheduleWorkOutsideLock ==
  /\ LockedScheduleWork = {}
  /\ \A t \in Threads \cup {"main"} :
       /\ ImmediatePost(t).w.wp = work_pending
       /\ ~ImmediatePost(t).w.lock

\* Thread t1 has posted the first immediate task to an enabled, unfenced
\* queue (the on-task-posted handler saw the post) and has called ScheduleWork
\* after it released the lock.
C27_Witness ==
  /\ work_pending
  /\ mpc.op = "idle"
  /\ th["t1"].pc = "idle"
  /\ nposted = 1
  /\ executed = <<>>
  /\ Len(any_thread.immediate_incoming_queue) = 1
  /\ main_thread_only.delayed_incoming_queue = {}
  /\ main_thread_only.current_fence = none
  /\ main_thread_only.is_enabled
  /\ unsafe_calls = {[call |-> "on_task_posted_handler", thread |-> "t1",
                      lock |-> TRUE]}

\* The call of the on-task-posted handler that a post from thread t makes.
HandlerCall(t) ==
  [call |-> "on_task_posted_handler", thread |-> t, lock |-> TRUE]

\* C28 as it is stated: every observer and handler call is made on the main
\* thread with no queue lock held.
C28_Original == unsafe_calls = {}

\* C28: OnQueueNextWakeUpChanged and the task observers' WillProcessTask and
\* DidProcessTask are called on the main thread with no queue lock held; the
\* on-task-posted handler is called on the thread that posts, with
\* any_thread_lock_ held.
C28_Callbacks ==
  /\ unsafe_calls \subseteq {HandlerCall(t) : t \in Threads \cup {"main"}}
  /\ \A t \in Threads \cup {"main"} :
       ImmediatePost(t).w.calls =
         IF any_thread.on_task_posted_handler THEN {HandlerCall(t)} ELSE {}

\* The handler has been called by a post from another thread, and the
\* observer of a queue with a scheduled wake-up is about to be told of a
\* reload.
C28_Witness ==
  /\ HandlerCall("t1") \in unsafe_calls
  /\ main_thread_only.task_queue_observer
  /\ main_thread_only.scheduled_wake_up # NoWakeUp
  /\ executed # <<>>
  /\ ReloadEmptyImmediateWorkQueue(World).obs # {}

\* ------------------------------------------------------------- lost wake-ups
\* The queue is enabled and holds a task that no fence blocks.
HasRunnableTask(w) ==
  /\ IsQueueEnabled(w)
  /\ HasTaskToRunImmediately(w, now)
  /\ ~BlockedByFence(w)

\* A thread has released the lock of a post and is about to call
\* ScheduleWork.
PosterWillScheduleWork ==
  \E t \in Threads : th[t].pc = "tail" /\ th[t].should_schedule_work

\* The rest of the operation the main thread is in the middle of, from the
\* lock to its return.
RestOfOperation(w) ==
  IF mpc.op = "InsertFence"
    THEN LET l == InsertFence_Locked(w, mpc.previous_fence,
                                     mpc.front_task_unblocked)
         IN Fence_Tail(l.w, l.front_task_unblocked)
  ELSE IF mpc.op = "RemoveFence"
    THEN LET l == RemoveFence_Locked(w, mpc.previous_fence,
                                     mpc.front_task_unblocked)
         IN Fence_Tail(l.w, l.front_task_unblocked)
  ELSE IF mpc.op = "SetQueueEnabled"
    THEN LET l == SetQueueEnabled_Locked(w)
         IN SetQueueEnabled_Tail(l.w, w.m.is_enabled,
                                 l.has_pending_immediate_work, now)
  ELSE w

\* The main thread is in the middle of an operation that will call
\* ScheduleWork before it returns.
MainWillScheduleWork ==
  RestOfOperation([World EXCEPT !.wp = FALSE]).wp

\* This step is a post from the main thread that calls ScheduleWork.
MainThreadPostSchedulesWork ==
  /\ PostImmediate_MainThread
  /\ ImmediatePost("main").should_schedule_work

ReloadNeeded ==
  /\ any_thread.immediate_incoming_queue # <<>>
  /\ main_thread_only.immediate_work_queue.tasks = <<>>

\* The cached state says the immediate work queue holds tasks, and it holds
\* none.
StaleHint ==
  /\ ~any_thread.immediate_work_queue_empty
  /\ main_thread_only.immediate_work_queue.tasks = <<>>

\* The main thread is between draining the flags, or taking the last task of
\* the immediate work queue, and the lock under which it takes the incoming
\* tasks.
AboutToReload ==
  mpc.op \in {"ReloadEmptyWorkQueues", "TakeTaskFromWorkQueue"}

\* C30 as it is stated: whenever the immediate incoming queue is non-empty
\* and the immediate work queue is empty the reload flag is set, and
\* immediate_work_queue_empty is never false while the immediate work queue is
\* empty.
C30_Original ==
  /\ ReloadNeeded => reload_flag
  /\ ~StaleHint

\* C30: whenever the immediate incoming queue is non-empty and the immediate
\* work queue is empty, the reload flag is set or the main thread is about to
\* take the incoming tasks; immediate_work_queue_empty is false while the
\* immediate work queue is empty only after the main thread took the last
\* task of the work queue and before it takes the incoming tasks.
C30_ReloadFlag ==
  /\ ReloadNeeded => (reload_flag \/ AboutToReload)
  /\ StaleHint => mpc.op = "TakeTaskFromWorkQueue"

\* The main thread has taken the last task of the immediate work queue and
\* run it and has not yet taken the lock of the reload; thread t1 has posted a
\* task while the cached state says the work queue holds tasks, so it neither
\* set the flag nor will call ScheduleWork.
C30_Witness ==
  /\ mpc.op = "TakeTaskFromWorkQueue"
  /\ StaleHint
  /\ ReloadNeeded
  /\ ~reload_flag
  /\ Len(any_thread.immediate_incoming_queue) = 1
  /\ Len(executed) = 1
  /\ th["t1"].pc = "tail"
  /\ ~th["t1"].should_schedule_work

\* ------------------------------------------- the time domain's notifications
\* The call that tells the sequence manager of the least wake-up of a heap at
\* the time lazy_now: an empty heap counts as TimeTicks::Max().
NotificationOf(heap, lazy_now) ==
  LET run_time == IF MinWakeUpTime(heap) = 0 THEN TimeTicksMax
                  ELSE MinWakeUpTime(heap)
  IN IF run_time <= lazy_now
       THEN [call |-> "RequestDoWork", run_time |-> 0]
       ELSE [call |-> "SetNextDelayedDoWork", run_time |-> run_time]

\* C31: an operation that calls SetNextWakeUpForQueue at most once tells the
\* sequence manager nothing when the least wake-up time of the heap is the
\* same before and after, and otherwise makes exactly one call: RequestDoWork
\* when the new least time is not after now, else SetNextDelayedDoWork with
\* the new least time, TimeTicks::Max() for an empty heap.  The calls of
\* MoveReadyDelayedTasksToWorkQueues, one SetNextWakeUpForQueue for each pass
\* of its loop at most, are none when the least time is the same before and
\* after, and otherwise end with the call for the new least time.
C31_OneNotification ==
  [][LET previous_wake_up == MinWakeUpTime(domain.delayed_wake_up_queue)
         new_wake_up == MinWakeUpTime(domain'.delayed_wake_up_queue)
         calls == domain_call'.calls
         expected == NotificationOf(domain'.delayed_wake_up_queue, domain.now)
     IN IF domain_call'.moved
          THEN /\ Len(calls) <= domain_call'.iterations
               /\ new_wake_up = previous_wake_up => calls = <<>>
               /\ new_wake_up # previous_wake_up =>
                    (calls # <<>> /\ calls[Len(calls)] = expected)
          ELSE calls = IF new_wake_up = previous_wake_up THEN <<>>
                       ELSE <<expected>>]_domain_vars

\* A queue whose task is ready was enabled again: the least wake-up is not
\* after now and the one call is RequestDoWork, while the other queue has no
\* wake-up.
C31_Witness ==
  /\ ~domain_call.moved
  /\ domain_call.calls = <<[call |-> "RequestDoWork", run_time |-> 0]>>
  /\ Cardinality(InHeap(domain.delayed_wake_up_queue)) = 1
  /\ MinWakeUpTime(domain.delayed_wake_up_queue) = domain.now

\* ----------------------------------------------- the ready tasks are moved
\* C32: MoveReadyDelayedTasksToWorkQueues(now) terminates, within one pass of
\* its loop for each queue; when it returns the heap is empty or its least
\* wake-up is after now, and every task left in the delayed incoming queue of
\* a queue it woke has a delayed run time after now.
C32_MoveReady ==
  domain_call.moved =>
    /\ ~domain_call.exhausted
    /\ domain_call.iterations <= Cardinality(Queues)
    /\ \/ InHeap(domain.delayed_wake_up_queue) = {}
       \/ MinWakeUpTime(domain.delayed_wake_up_queue) > domain.now
    /\ \A queue \in domain_call.woken :
         \A task \in domain.queues[queue].delayed_incoming_queue :
           task.drt > domain.now

\* MoveReadyDelayedTasksToWorkQueues woke one queue, moved its ready task and
\* left the task that is not ready, whose wake-up is in the heap.
C32_Witness ==
  /\ domain_call.moved
  /\ domain_call.iterations = 1
  /\ \E queue \in domain_call.woken :
       /\ domain.queues[queue].delayed_incoming_queue # {}
       /\ domain.delayed_wake_up_queue[queue] # nullopt
  /\ domain.posted = 2

\* --------------------------------------------- high resolution wake-ups
\* The queues whose entry in the heap has a wake-up of high resolution.
HighResolutionEntries ==
  {queue \in InHeap(domain.delayed_wake_up_queue) :
     domain.delayed_wake_up_queue[queue].resolution = "kHigh"}

\* C40: pending_high_res_wake_up_count_ is the number of entries of the heap
\* whose wake-up has high resolution, and is never negative, whatever queue
\* was updated or unregistered.
C40_HighResCount ==
  /\ domain.pending_high_res_wake_up_count =
       Cardinality(HighResolutionEntries)
  /\ domain.pending_high_res_wake_up_count >= 0

\* Both queues hold a high resolution task and have an entry in the heap; one
\* of them was given a low priority, so only one wake-up is counted.
C40_Witness ==
  /\ InHeap(domain.delayed_wake_up_queue) = Queues
  /\ \A queue \in Queues :
       \E task \in domain.queues[queue].delayed_incoming_queue :
         task.is_high_res
  /\ \E queue \in Queues : domain.queues[queue].low_priority
  /\ domain.pending_high_res_wake_up_count = 1

\* ------------------------------------------------- enqueue orders in a queue
\* The tasks of a queue have enqueue orders, strictly increasing from front to
\* back.
StrictlyIncreasing(tasks) ==
  /\ \A i \in 1..Len(tasks) : tasks[i].eo # none
  /\ \A i, j \in 1..Len(tasks) : i < j => tasks[i].eo < tasks[j].eo

\* The immediate incoming queue, the immediate work queue and the delayed work
\* queue are strictly increasing in enqueue order, and no task of the delayed
\* incoming queue has an enqueue order.
EnqueueOrdersIncrease ==
  /\ StrictlyIncreasing(any_thread.immediate_incoming_queue)
  /\ StrictlyIncreasing(main_thread_only.immediate_work_queue.tasks)
  /\ StrictlyIncreasing(main_thread_only.delayed_work_queue.tasks)
  /\ \A task \in main_thread_only.delayed_incoming_queue : task.eo = none

\* A step leaves in the delayed work queue the tasks arrived: those that were
\* not in it and are not requeued.  Each has an enqueue order that was not
\* handed out before, and those that waited in the delayed incoming queue
\* received theirs in the order of that queue.
MovedInOrder ==
  LET arrived ==
        {task \in RangeOf(main_thread_only'.delayed_work_queue.tasks) :
           /\ \A old \in RangeOf(main_thread_only.delayed_work_queue.tasks) :
                old.id # task.id
           /\ \A old \in RangeOf(non_nestable_task_queue) : old.id # task.id}
      waited ==
        {task \in arrived :
           \E old \in main_thread_only.delayed_incoming_queue :
             old.id = task.id}
  IN /\ \A task \in arrived :
          /\ task.eo >= next_sequence_number
          /\ task.eo < next_sequence_number'
     /\ \A a, b \in waited : RunsBefore(a, b) => a.eo < b.eo

\* C33: in every reachable state the immediate incoming queue, the immediate
\* work queue and the delayed work queue are each strictly increasing in
\* enqueue order from front to back, also after a deferred non-nestable task
\* was pushed back to the front; a task in the delayed incoming queue has no
\* enqueue order, and the tasks that are moved from it to the delayed work
\* queue receive fresh enqueue orders in (delayed run time, sequence number)
\* order.
C33_EnqueueOrders ==
  /\ []EnqueueOrdersIncrease
  /\ [][MovedInOrder]_vars

\* Two delayed tasks posted from the main thread were moved together and
\* given the only enqueue orders handed out since; the first was deferred
\* inside a nested run loop, nothing was run, and it has been pushed back to
\* the front of the delayed work queue.
C33_Witness ==
  /\ non_nestable_task_queue = <<>>
  /\ executed = <<>>
  /\ Len(main_thread_only.delayed_work_queue.tasks) = 2
  /\ main_thread_only.delayed_work_queue.tasks[2].seq =
       main_thread_only.delayed_work_queue.tasks[1].seq + 1
  /\ next_sequence_number =
       main_thread_only.delayed_work_queue.tasks[1].seq + 4

\* ------------------------------------------------- an unregistered queue
\* What UnregisterTaskQueue leaves: IsUnregistered() is true, no time domain
\* has a wake-up of the queue, both references to the time domain are null,
\* the reload flag is released and the four containers are empty.
QueueCleared ==
  /\ any_thread.unregistered
  /\ \A time_domain \in TimeDomains : delayed_wake_up_queue[time_domain] = {}
  /\ any_thread.time_domain = nullptr
  /\ main_thread_only.time_domain = nullptr
  /\ ~reload_flag
  /\ any_thread.immediate_incoming_queue = <<>>
  /\ main_thread_only.immediate_work_queue.tasks = <<>>
  /\ main_thread_only.delayed_incoming_queue = {}
  /\ main_thread_only.delayed_work_queue.tasks = <<>>

\* C35: once UnregisterTaskQueue has returned, the queue reports
\* IsUnregistered(), has no entry in the heap of a time domain, both its
\* references to the time domain are null, its reload flag is released and
\* its four containers are empty; the pending tasks are destroyed in a step
\* that begins with the lock released and those fields cleared.
C35_Unregistered ==
  /\ [](operations_controller = "shutdown" /\ mpc.op = "idle"
          => QueueCleared)
  /\ [][dropped' # dropped =>
          /\ mpc.op = "UnregisterTaskQueue_Return"
          /\ QueueCleared
          /\ dropped' = dropped \cup mpc.locals]_vars

\* UnregisterTaskQueue has returned from a queue that held two tasks; both
\* were destroyed.
C35_Witness ==
  /\ operations_controller = "shutdown"
  /\ mpc.op = "idle"
  /\ any_thread.unregistered
  /\ Cardinality(dropped) = 2
  /\ executed = <<>>

\* --------------------------------------------- whose state a thread touches
\* Another state of the main thread's part of the queue: the work queues, the
\* delayed incoming queue, the fence, the enabled flag and the scheduled
\* wake-up all differ.  delayed_fence_allowed_ is a constant member.
OtherMainThreadOnly(m) ==
  [m EXCEPT
     !.immediate_work_queue =
        [tasks |-> <<>>,
         fence |-> IF @.fence = none THEN blocking_fence ELSE none],
     !.delayed_work_queue =
        [tasks |-> <<>>,
         fence |-> IF @.fence = none THEN blocking_fence ELSE none],
     !.delayed_incoming_queue =
        IF @ = {} THEN {NewTask(0, 0, none, 1, 0, 1, 0, 0)} ELSE {},
     !.current_fence = IF @ = none THEN blocking_fence ELSE none,
     !.is_enabled = ~@,
     !.scheduled_wake_up =
        IF @ = NoWakeUp THEN [time |-> 1, seq |-> 1] ELSE NoWakeUp]

\* What a post of thread t does under the lock does not depend on the main
\* thread's part of the queue and leaves it as it is: the section neither
\* reads nor writes it.
PostIgnoresMainThreadOnly(t) ==
  LET w == WorldOf(t)
      v == [w EXCEPT !.m = OtherMainThreadOnly(w.m)]
      r == PostImmediateTaskImpl_Locked(w, nposted + 1, th[t].pdrt,
                                        th[t].pseq, th[t].pdrt, now)
      q == PostImmediateTaskImpl_Locked(v, nposted + 1, th[t].pdrt,
                                        th[t].pseq, th[t].pdrt, now)
  IN /\ r.w.m = w.m
     /\ q.w = [r.w EXCEPT !.m = v.m]
     /\ q.should_schedule_work = r.should_schedule_work

\* A step of another thread.
OtherThreadStep == \E t \in Threads : th'[t] # th[t]

\* The helper tasks waiting in the immediate incoming queue and the immediate
\* work queue, in this state and in the next.
WaitingHelpers ==
  {task \in RangeOf(any_thread.immediate_incoming_queue)
            \cup RangeOf(main_thread_only.immediate_work_queue.tasks) :
     IsHelper(task)}
WaitingHelpersAfter ==
  {task \in RangeOf(any_thread'.immediate_incoming_queue)
            \cup RangeOf(main_thread_only'.immediate_work_queue.tasks) :
     IsHelper(task)}

\* What a step may touch.  A step of another thread leaves the main thread's
\* part and the heaps of the time domains as they are, and changes the
\* any-thread part only in its lock section, which ends at "tail"; the
\* cross-thread delayed post appends to the immediate incoming queue one
\* helper task, immediate, that carries the delayed task.  A helper task
\* leaves the queue in a step of the main thread, which puts the delayed task
\* into the delayed incoming queue, or the delayed work queue when it is due.
ThreadConfinedStep ==
  /\ OtherThreadStep =>
       /\ main_thread_only' = main_thread_only
       /\ delayed_wake_up_queue' = delayed_wake_up_queue
       /\ \A t \in Threads :
            (th'[t] # th[t] /\ th'[t].pc # "tail") => any_thread' = any_thread
       /\ \A t \in Threads :
            (th[t].pc = "prepped" /\ th'[t].pc = "tail") =>
              \E helper \in WaitingHelpersAfter :
                /\ any_thread'.immediate_incoming_queue =
                     Append(any_thread.immediate_incoming_queue, helper)
                /\ helper.drt = 0
                /\ helper.eo = helper.seq
                /\ helper.pseq = th[t].pseq
                /\ helper.pdrt = th[t].pdrt
  /\ \A helper \in WaitingHelpers :
       (\A after \in WaitingHelpersAfter : after.id # helper.id) =>
         /\ ~OtherThreadStep
         /\ \E task \in main_thread_only'.delayed_incoming_queue
                         \cup RangeOf(main_thread_only'.delayed_work_queue.tasks) :
              /\ task.id = helper.id
              /\ task.seq = helper.pseq
              /\ ~IsHelper(task)

\* C34: the main thread's part of a queue (work queues, delayed incoming
\* queue, fences, enabled flag, scheduled wake-up) is neither read nor written
\* by the posts of other threads, which change the any-thread part only in
\* their lock section; a delayed post from another thread leaves the delayed
\* incoming queue alone and appends an immediate helper task to the immediate
\* incoming queue, and the delayed task is inserted when the main thread runs
\* the helper.
C34_ThreadConfinement ==
  /\ [](\A t \in Threads : PostIgnoresMainThreadOnly(t))
  /\ [][ThreadConfinedStep]_vars

\* The main thread has run the helper task of a delayed post of thread t1:
\* the delayed task, with the sequence number taken by t1, waits in the
\* delayed incoming queue.
C34_Witness ==
  /\ \E task \in main_thread_only.delayed_incoming_queue : task.seq = 2
  /\ any_thread.immediate_incoming_queue = <<>>
  /\ main_thread_only.immediate_work_queue.tasks = <<>>
  /\ next_sequence_number = 4
  /\ nposted = 1
  /\ th["t1"].pc = "idle"

\* The invocations of the user task which the tasks in the task runner make
\* when they are run at the given time: the scheduled task, and each task
\* the timer has abandoned.
TaskRunInvocations(time) ==
  (IF task_runner.due # 0
     THEN {RunTask(ScheduledTaskTaken(TimerWorld), TRUE, time).invoked}
     ELSE {})
    \cup {RunTask(AbandonedTaskTaken(TimerWorld, task), task.valid,
                  time).invoked : task \in task_runner.abandoned}

\* No task in the task runner, run now or at any later time, invokes the
\* user task.
NoTaskInvokes ==
  \A time \in tick_clock..MaxTicks : TaskRunInvocations(time) \subseteq {<<>>}

\* Stop and AbandonAndStop leave the timer not running.
StopStops ==
  (Timer_Stop \/ Timer_AbandonAndStop) => ~timer'.is_running

\* C36: Stop and AbandonAndStop leave the timer, of any kind, not running;
\* and while the timer is not running, that is until Start or Reset is
\* called, no task it scheduled before invokes the user task, however late
\* the task is run.
C36_StopCancels ==
  /\ [](~timer.is_running => NoTaskInvokes)
  /\ [][StopStops]_vars

\* A RepeatingTimer which was started and stopped: it still has its user
\* task, the task scheduled before the stop is in the task runner, and its
\* time has passed.
C36_Witness ==
  /\ timer.kind = "RepeatingTimer"
  /\ armed.by = "Start"
  /\ ~timer.is_running
  /\ timer.user_task # NullCallback
  /\ task_runner.due # 0
  /\ tick_clock > task_runner.due

\* The tasks of the timer in the task runner which the timer has not
\* abandoned, each by the time from which it may run: the scheduled task, and
\* every other task whose weak pointer is valid.
NonAbandonedTasks ==
  (IF task_runner.due # 0 THEN {<<"scheduled", task_runner.due>>} ELSE {})
    \cup {<<"other", task.due>> : task \in {t \in task_runner.abandoned :
                                              t.valid}}

\* C37: between the operations of a timer that has not been destroyed,
\* IsRunning() implies that task_destruction_detector_ is non-null;
\* task_destruction_detector_ is non-null exactly when the task runner holds
\* a scheduled task the timer has not abandoned; and the task runner never
\* holds more than one such task, whatever was called, run, refused or
\* destroyed before.
C37_OneScheduledTask ==
  /\ (~timer.destructed /\ timer.is_running) =>
       timer.task_destruction_detector
  /\ timer.task_destruction_detector <=> NonAbandonedTasks # {}
  /\ Cardinality(NonAbandonedTasks) <= 1

\* A running timer was reset to an earlier time: the task runner holds the
\* task that was abandoned and the one scheduled in its place.
C37_Witness ==
  /\ timer.is_running
  /\ timer.task_destruction_detector
  /\ armed.by = "Start"
  /\ armed.posts = 1
  /\ task_runner.due # 0
  /\ \E task \in task_runner.abandoned : ~task.valid

\* The invocations which OneShotTimer::RunUserTask makes where it can be
\* reached now or later: from a task in the task runner that is run, and
\* from FireNow called now on a running timer.
RunUserTaskReached ==
  UNION {{invoked[i] : i \in 1..Len(invoked)} :
           invoked \in UNION {TaskRunInvocations(time) :
                                time \in tick_clock..MaxTicks}}
    \cup (IF timer.is_running /\ ~timer.destructed
            THEN LET invoked == FireNow(TimerWorld, tick_clock).invoked
                 IN {invoked[i] : i \in 1..Len(invoked)}
            ELSE {})

\* The task OneShotTimer::RunUserTask has moved to its local is not null:
\* DCHECK(task) holds.
DCheckTask == \A invocation \in RunUserTaskReached :
                invocation.task # NullCallback

EnqueueOrdersInQueue ==
  {main_thread_only.immediate_work_queue.tasks[i].eo :
     i \in 1..Len(main_thread_only.immediate_work_queue.tasks)}
    \cup {main_thread_only.delayed_work_queue.tasks[i].eo :
            i \in 1..Len(main_thread_only.delayed_work_queue.tasks)}
    \cup {any_thread.immediate_incoming_queue[i].eo :
            i \in 1..Len(any_thread.immediate_incoming_queue)}

\* C39: while the queue's priority is less important than kNormalPriority,
\* enqueue_order_at_which_we_became_unblocked_with_normal_priority is
\* EnqueueOrder::max() and WasBlockedOrLowPriority is true of every task of
\* the queue; and the DCHECK_EQ of SetQueuePriority has never failed,
\* whatever SetQueuePriority, fence and enable calls were made.
C39_LowPriority ==
  /\ priorities.priority > kNormalPriority =>
       /\ priorities.enqueue_order_at_which_we_became_unblocked_with_normal_priority
            = EnqueueOrder_max
       /\ \A enqueue_order \in EnqueueOrdersInQueue :
            WasBlockedOrLowPriority(World, enqueue_order)
  /\ priorities.dcheck_eq # "failed"

\* The queue's priority was lowered, raised, which reached the DCHECK_EQ, and
\* lowered again, and the queue became unblocked while its priority was low:
\* the two enqueue orders differ, and a task is in the queue.
C39_Witness ==
  /\ priorities.priority > kNormalPriority
  /\ priorities.dcheck_eq = "held"
  /\ priorities.enqueue_order_at_which_we_became_unblocked # none
  /\ priorities.enqueue_order_at_which_we_became_unblocked_with_normal_priority
       = EnqueueOrder_max
  /\ EnqueueOrdersInQueue # {}

====
